---- MODULE Spec2Model ----
(***************************************************************************)
(* pathuni: tag grammar and matcher, tag inheritance, configuration        *)
(* evaluation and scope/prune resolution.                                   *)
(*                                                                          *)
(* Strings are sequences of one-character strings, so that the library      *)
(* functions the program calls (strings.Split, strings.TrimSpace,           *)
(* strings.ToLower, regexp, filepath.Match) are computed character by       *)
(* character.                                                               *)
(***************************************************************************)
EXTENDS Integers, Sequences, FiniteSets, TLC

VARIABLES
    pc,      \* position of the invocation under way
    args,    \* arguments of the function or command being run (its inputs)
    ret      \* what it returned or printed

vars == <<pc, args, ret>>

(***************************************************************************)
(* Characters.                                                              *)
(***************************************************************************)
Ascii ==
    << " ", "!", "\"", "#", "$", "%", "&", "'", "(", ")", "*", "+", ",", "-", ".", "/",
       "0", "1", "2", "3", "4", "5", "6", "7", "8", "9", ":", ";", "<", "=", ">", "?",
       "@", "A", "B", "C", "D", "E", "F", "G", "H", "I", "J", "K", "L", "M", "N", "O",
       "P", "Q", "R", "S", "T", "U", "V", "W", "X", "Y", "Z", "[", "\\", "]", "^", "_",
       "grave", "a", "b", "c", "d", "e", "f", "g", "h", "i", "j", "k", "l", "m", "n", "o",
       "p", "q", "r", "s", "t", "u", "v", "w", "x", "y", "z", "{", "|", "}", "~" >>

AsciiSet == {Ascii[i] : i \in DOMAIN Ascii}

\* The code point of a printable ASCII character (the table starts at 32; the
\* slot of the grave accent, which no tag or filter uses, holds a placeholder).
OrdOf == [c \in AsciiSet |-> (CHOOSE i \in DOMAIN Ascii : Ascii[i] = c) + 31]

Ord(c) == OrdOf[c]

IsUpper(c) == Ord(c) >= Ord("A") /\ Ord(c) <= Ord("Z")

IsLower(c) == Ord(c) >= Ord("a") /\ Ord(c) <= Ord("z")

IsLetter(c) == IsUpper(c) \/ IsLower(c)

IsDigit(c) == Ord(c) >= Ord("0") /\ Ord(c) <= Ord("9")

ToLowerChar(c) == IF IsUpper(c) THEN Ascii[Ord(c) - Ord("A") + Ord("a") - 31] ELSE c

ToUpperChar(c) == IF IsLower(c) THEN Ascii[Ord(c) - Ord("a") + Ord("A") - 31] ELSE c

\* strings.ToLower on ASCII text.
ToLower(s) == [i \in DOMAIN s |-> ToLowerChar(s[i])]

\* strings.EqualFold on ASCII text.
EqualFold(s, t) == ToLower(s) = ToLower(t)

\* strings.ContainsAny(s, chars).
ContainsAny(s, chars) == \E i \in DOMAIN s : s[i] \in chars

\* The nil error.  (A nil slice is modelled as the empty sequence wherever
\* the program only takes its length or ranges over it; PathEntry.Tags, whose
\* nil-ness the program tests, is modelled with an explicit flag below.)
Nil == "nil"

(***************************************************************************)
(* Go library functions the tag code calls.                                 *)
(***************************************************************************)
\* unicode.IsSpace on the characters of the table.
IsSpace(c) == c = " "

\* strings.TrimSpace(s).
TrimSpace(s) ==
    LET keep == {i \in DOMAIN s : ~IsSpace(s[i])}
    IN  IF keep = {} THEN <<>>
        ELSE SubSeq(s, CHOOSE i \in keep : \A j \in keep : i <= j,
                       CHOOSE i \in keep : \A j \in keep : i >= j)

\* strings.Split(s, sep) for a one-character separator: one piece more than
\* there are separators, empty pieces included.
RECURSIVE Split(_, _)
Split(s, sep) ==
    IF \A i \in DOMAIN s : s[i] # sep THEN <<s>>
    ELSE LET i == CHOOSE k \in DOMAIN s : s[k] = sep /\ \A j \in 1..(k - 1) : s[j] # sep
         IN  <<SubSeq(s, 1, i - 1)>> \o Split(SubSeq(s, i + 1, Len(s)), sep)

\* strings.Join(parts, sep).
RECURSIVE Join(_, _)
Join(parts, sep) ==
    IF parts = <<>> THEN <<>>
    ELSE IF Len(parts) = 1 THEN parts[1]
    ELSE parts[1] \o sep \o Join(Tail(parts), sep)

\* path/filepath.Match on Unix (Separator '/', backslash escapes), as of the
\* Go releases that validate the whole pattern: scanChunk, getEsc, matchChunk
\* and Match follow the library source.
Separator == "/"

RECURSIVE scanIndex(_, _, _)
scanIndex(p, i, inrange) ==
    IF i >= Len(p) THEN i
    ELSE CASE p[i + 1] = "\\" ->
                  IF i + 1 < Len(p) THEN scanIndex(p, i + 2, inrange)
                  ELSE scanIndex(p, i + 1, inrange)
           [] p[i + 1] = "[" -> scanIndex(p, i + 1, TRUE)
           [] p[i + 1] = "]" -> scanIndex(p, i + 1, FALSE)
           [] p[i + 1] = "*" -> IF ~inrange THEN i ELSE scanIndex(p, i + 1, inrange)
           [] OTHER -> scanIndex(p, i + 1, inrange)

scanChunk(pattern) ==
    LET cut(star, p, i) == [star |-> star, chunk |-> SubSeq(p, 1, i), rest |-> SubSeq(p, i + 1, Len(p))]
        after(stars) == cut(stars > 0, SubSeq(pattern, stars + 1, Len(pattern)),
                            scanIndex(SubSeq(pattern, stars + 1, Len(pattern)), 0, FALSE))
    IN  after(CHOOSE k \in 0..Len(pattern) :
                  /\ \A j \in 1..k : pattern[j] = "*"
                  /\ (k < Len(pattern) => pattern[k + 1] # "*"))

\* getEsc: one character of a class, possibly escaped; an error when the
\* chunk is over, starts with '-' or ']', or ends with the character.
getEsc(chunk) ==
    IF chunk = <<>> \/ Head(chunk) = "-" \/ Head(chunk) = "]"
    THEN [r |-> 0, nchunk |-> <<>>, err |-> TRUE]
    ELSE LET take(c) == IF c = <<>> THEN [r |-> 0, nchunk |-> <<>>, err |-> TRUE]
                        ELSE [r |-> Ord(Head(c)), nchunk |-> Tail(c), err |-> Tail(c) = <<>>]
         IN  take(IF Head(chunk) = "\\" THEN Tail(chunk) ELSE chunk)

\* The loop over the ranges of one character class, entered after '[' and
\* an optional '^'; r is the code point being matched (0 once failed).
RECURSIVE matchClass(_, _, _, _)
matchClass(chunk, r, match, nrange) ==
    IF chunk # <<>> /\ Head(chunk) = "]" /\ nrange > 0
    THEN [chunk |-> Tail(chunk), match |-> match, err |-> FALSE]
    ELSE LET range(lo, hi) ==
                 IF hi.err THEN [chunk |-> <<>>, match |-> FALSE, err |-> TRUE]
                 ELSE matchClass(hi.nchunk, r, match \/ (lo.r <= r /\ r <= hi.r), nrange + 1)
             single(lo) ==
                 IF lo.err THEN [chunk |-> <<>>, match |-> FALSE, err |-> TRUE]
                 ELSE IF Head(lo.nchunk) = "-" THEN range(lo, getEsc(Tail(lo.nchunk)))
                 ELSE matchClass(lo.nchunk, r, match \/ lo.r = r, nrange + 1)
         IN  single(getEsc(chunk))

RECURSIVE matchChunkLoop(_, _, _)
matchChunkLoop(chunk, s, wasFailed) ==
    IF chunk = <<>>
    THEN IF wasFailed THEN [rest |-> <<>>, ok |-> FALSE, err |-> FALSE]
         ELSE [rest |-> s, ok |-> TRUE, err |-> FALSE]
    ELSE LET class(failed, s1, negated, cls) ==
                 IF cls.err THEN [rest |-> <<>>, ok |-> FALSE, err |-> TRUE]
                 ELSE matchChunkLoop(cls.chunk, s1, failed \/ cls.match = negated)
             open(failed, s1, negated, c1) ==
                 class(failed, s1, negated,
                       matchClass(IF negated THEN Tail(c1) ELSE c1,
                                  IF failed THEN 0 ELSE Ord(Head(s)), FALSE, 0))
             step(failed, s1) ==
                 CASE Head(chunk) = "[" ->
                          open(failed, s1, Tail(chunk) # <<>> /\ Head(Tail(chunk)) = "^",
                               Tail(chunk))
                   [] Head(chunk) = "?" ->
                          matchChunkLoop(Tail(chunk), s1, failed \/ Head(s) = Separator)
                   [] Head(chunk) = "\\" ->
                          IF Tail(chunk) = <<>> THEN [rest |-> <<>>, ok |-> FALSE, err |-> TRUE]
                          ELSE matchChunkLoop(Tail(Tail(chunk)), s1,
                                              failed \/ Head(Tail(chunk)) # Head(s))
                   [] OTHER ->
                          matchChunkLoop(Tail(chunk), s1, failed \/ Head(chunk) # Head(s))
         IN  step(wasFailed \/ s = <<>>, IF wasFailed \/ s = <<>> THEN s ELSE Tail(s))

matchChunk(chunk, s) == matchChunkLoop(chunk, s, FALSE)

\* The scan that lets a star swallow i+1 characters of the name.
RECURSIVE starScan(_, _, _, _)
starScan(chunk, rest, name, i) ==
    IF ~(i < Len(name) /\ name[i + 1] # Separator) THEN [kind |-> "none", rest |-> <<>>]
    ELSE LET try(m) ==
                 IF m.ok
                 THEN IF rest = <<>> /\ m.rest # <<>> THEN starScan(chunk, rest, name, i + 1)
                      ELSE [kind |-> "found", rest |-> m.rest]
                 ELSE IF m.err THEN [kind |-> "err", rest |-> <<>>]
                 ELSE starScan(chunk, rest, name, i + 1)
         IN  try(matchChunk(chunk, SubSeq(name, i + 2, Len(name))))

\* The check of the rest of the pattern made before Match reports a mismatch.
RECURSIVE remainderBad(_)
remainderBad(pattern) ==
    IF pattern = <<>> THEN FALSE
    ELSE LET check(sc) == matchChunk(sc.chunk, <<>>).err \/ remainderBad(sc.rest)
         IN  check(scanChunk(pattern))

RECURSIVE Match(_, _)
Match(pattern, name) ==
    IF pattern = <<>> THEN [matched |-> name = <<>>, err |-> FALSE]
    ELSE LET chunked(sc, m, st) ==
                 IF sc.star /\ sc.chunk = <<>>
                 THEN [matched |-> \A i \in DOMAIN name : name[i] # Separator, err |-> FALSE]
                 ELSE IF m.ok /\ (m.rest = <<>> \/ sc.rest # <<>>) THEN Match(sc.rest, m.rest)
                 ELSE IF m.err THEN [matched |-> FALSE, err |-> TRUE]
                 ELSE IF st.kind = "found" THEN Match(sc.rest, st.rest)
                 ELSE IF st.kind = "err" THEN [matched |-> FALSE, err |-> TRUE]
                 ELSE [matched |-> FALSE, err |-> remainderBad(sc.rest)]
             scanned(sc) ==
                 chunked(sc, matchChunk(sc.chunk, name),
                         IF sc.star THEN starScan(sc.chunk, sc.rest, name, 0)
                         ELSE [kind |-> "none", rest |-> <<>>])
         IN  scanned(scanChunk(pattern))

(***************************************************************************)
(* Tag grammar and matcher.                                                 *)
(***************************************************************************)
\* tagRegex ^[a-zA-Z][a-zA-Z0-9_]{2,19}$ : the repetition bounds.
TagRestMin == 2

TagRestMax == 19

IsTagChar(c) == IsLetter(c) \/ IsDigit(c) \/ c = "_"

\* tagRegex.MatchString(tag)
tagRegexMatch(tag) ==
    /\ tag # <<>>
    /\ IsLetter(tag[1])
    /\ Len(tag) - 1 >= TagRestMin
    /\ Len(tag) - 1 <= TagRestMax
    /\ \A i \in 2..Len(tag) : IsTagChar(tag[i])

isWildcardTag(tag) == ContainsAny(tag, {"*", "?", "[", "]"})

\* validateTag returns nil or an error; the error is modelled by its kind.
validateTag(tag) ==
    IF isWildcardTag(tag)
    THEN IF Match(tag, <<"t", "e", "s", "t">>).err THEN "invalid wildcard pattern" ELSE Nil
    ELSE IF ~tagRegexMatch(tag) THEN "invalid tag" ELSE Nil

\* A variant of parseAndTags that drops a blank AND segment instead of
\* failing on it.
RECURSIVE parseAndTags_SkipBlank(_, _)
parseAndTags_SkipBlank(andTags, andGroup) ==
    IF andTags = <<>> THEN [andGroup |-> andGroup, err |-> Nil]
    ELSE LET tag == TrimSpace(Head(andTags))
         IN  IF tag = <<>> THEN parseAndTags_SkipBlank(Tail(andTags), andGroup)
             ELSE IF validateTag(tag) # Nil
                  THEN [andGroup |-> <<>>, err |-> "invalid tag in filter"]
             ELSE parseAndTags_SkipBlank(Tail(andTags), Append(andGroup, tag))

\* The loop of parseTagFilter over the AND tags of one OR group.
RECURSIVE parseAndTags(_, _)
parseAndTags(andTags, andGroup) ==
    IF andTags = <<>> THEN [andGroup |-> andGroup, err |-> Nil]
    ELSE LET each(tag) ==
                 IF tag = <<>> THEN [andGroup |-> <<>>, err |-> "empty tag in filter"]
                 ELSE IF validateTag(tag) # Nil
                      THEN [andGroup |-> <<>>, err |-> "invalid tag in filter"]
                 ELSE parseAndTags(Tail(andTags), Append(andGroup, tag))
         IN  each(TrimSpace(Head(andTags)))

\* The loop of parseTagFilter over the OR groups; result starts nil (empty).
RECURSIVE parseOrGroups(_, _)
parseOrGroups(orGroups, result) ==
    IF orGroups = <<>> THEN [result |-> result, err |-> Nil]
    ELSE LET grouped(g) ==
                 IF g.err # Nil THEN [result |-> <<>>, err |-> g.err]
                 ELSE parseOrGroups(Tail(orGroups),
                                    IF Len(g.andGroup) > 0 THEN Append(result, g.andGroup)
                                    ELSE result)
             each(group) ==
                 IF group = <<>> THEN grouped([andGroup |-> <<>>, err |-> Nil])
                 ELSE grouped(parseAndTags(Split(group, "+"), <<>>))
         IN  each(TrimSpace(Head(orGroups)))

parseTagFilter(filter) ==
    IF filter = <<>> THEN [result |-> <<>>, err |-> Nil]
    ELSE parseOrGroups(Split(filter, ","), <<>>)

\* A variant of hasMatchingTag that matches wildcard patterns without
\* lower-casing either side.
RECURSIVE hasMatchingTag_CaseSensitive(_, _)
hasMatchingTag_CaseSensitive(pathTags, pattern) ==
    IF pathTags = <<>> THEN FALSE
    ELSE LET found(m) == ~m.err /\ m.matched
         IN  IF IF isWildcardTag(pattern)
                THEN found(Match(pattern, Head(pathTags)))
                ELSE EqualFold(pattern, Head(pathTags))
             THEN TRUE
             ELSE hasMatchingTag_CaseSensitive(Tail(pathTags), pattern)

\* hasMatchingTag: the loop over the path's tags, returning at the first match.
RECURSIVE hasMatchingTag(_, _)
hasMatchingTag(pathTags, pattern) ==
    IF pathTags = <<>> THEN FALSE
    ELSE LET found(m) == ~m.err /\ m.matched
         IN  IF IF isWildcardTag(pattern)
                THEN found(Match(ToLower(pattern), ToLower(Head(pathTags))))
                ELSE EqualFold(pattern, Head(pathTags))
             THEN TRUE
             ELSE hasMatchingTag(Tail(pathTags), pattern)

\* The inner loop of matchesTagConditions: allMatch for one AND group.
RECURSIVE allMatch(_, _)
allMatch(pathTags, andGroup) ==
    IF andGroup = <<>> THEN TRUE
    ELSE IF ~hasMatchingTag(pathTags, Head(andGroup)) THEN FALSE
    ELSE allMatch(pathTags, Tail(andGroup))

RECURSIVE anyGroupMatches(_, _)
anyGroupMatches(pathTags, conditions) ==
    IF conditions = <<>> THEN FALSE
    ELSE IF allMatch(pathTags, Head(conditions)) THEN TRUE
    ELSE anyGroupMatches(pathTags, Tail(conditions))

\* A variant of matchesTagConditions in which an empty condition list matches.
matchesTagConditions_EmptyMatches(pathTags, conditions) ==
    IF Len(conditions) = 0 THEN TRUE
    ELSE anyGroupMatches(pathTags, conditions)

matchesTagConditions(pathTags, conditions) ==
    IF Len(conditions) = 0 THEN FALSE
    ELSE anyGroupMatches(pathTags, conditions)

\* parseTagFlags: a TagFilter whose sides stay nil (empty) when their flag is
\* empty; on an error the zero TagFilter is returned with it.
parseTagFlags(includeFlag, excludeFlag) ==
    LET parsed(inc, exc) ==
            IF inc.err # Nil
            THEN [filter |-> [Include |-> <<>>, Exclude |-> <<>>], err |-> "invalid --tags-include flag"]
            ELSE IF exc.err # Nil
            THEN [filter |-> [Include |-> <<>>, Exclude |-> <<>>], err |-> "invalid --tags-exclude flag"]
            ELSE [filter |-> [Include |-> inc.result, Exclude |-> exc.result], err |-> Nil]
    IN  parsed(IF includeFlag # <<>> THEN parseTagFilter(includeFlag)
               ELSE [result |-> <<>>, err |-> Nil],
               IF excludeFlag # <<>> THEN parseTagFilter(excludeFlag)
               ELSE [result |-> <<>>, err |-> Nil])

\* A variant of shouldIncludePath without the early return for untagged paths.
shouldIncludePath_NoImmunity(pathTags, isExplicitlyTagged, filter) ==
    IF Len(filter.Exclude) > 0 /\ matchesTagConditions(pathTags, filter.Exclude)
    THEN FALSE
    ELSE IF Len(filter.Include) > 0
         THEN matchesTagConditions(pathTags, filter.Include)
    ELSE TRUE

\* A variant of shouldIncludePath that consults Include before Exclude.
shouldIncludePath_IncludeFirst(pathTags, isExplicitlyTagged, filter) ==
    IF Len(pathTags) = 0 /\ ~isExplicitlyTagged THEN TRUE
    ELSE IF Len(filter.Include) > 0 /\ matchesTagConditions(pathTags, filter.Include)
         THEN TRUE
    ELSE IF Len(filter.Exclude) > 0 /\ matchesTagConditions(pathTags, filter.Exclude)
         THEN FALSE
    ELSE Len(filter.Include) = 0

shouldIncludePath(pathTags, isExplicitlyTagged, filter) ==
    IF Len(pathTags) = 0 /\ ~isExplicitlyTagged THEN TRUE
    ELSE IF Len(filter.Exclude) > 0 /\ matchesTagConditions(pathTags, filter.Exclude)
         THEN FALSE
    ELSE IF Len(filter.Include) > 0
         THEN matchesTagConditions(pathTags, filter.Include)
    ELSE TRUE

(***************************************************************************)
(* Glob patterns, stated as a grammar and a matching relation, for the      *)
(* properties to compare the code against.                                  *)
(*   pattern = { term }                                                     *)
(*   term    = '*' | '?' | '\' c | '[' [ '^' ] item { item } ']' | c        *)
(*   item    = lo [ '-' hi ],  lo and hi a character other than '-' and     *)
(*             ']', or '\' followed by any character                        *)
(***************************************************************************)
Bad == [ok |-> FALSE]

\* One class character at the head of q: its code point and the rest, or Bad.
ClassChar(q) ==
    IF q = <<>> \/ Head(q) = "-" \/ Head(q) = "]" THEN Bad
    ELSE IF Head(q) = "\\"
         THEN IF Len(q) < 2 THEN Bad
              ELSE [ok |-> TRUE, r |-> Ord(q[2]), rest |-> SubSeq(q, 3, Len(q))]
    ELSE [ok |-> TRUE, r |-> Ord(Head(q)), rest |-> Tail(q)]

\* The items of a class whose text starts at q (after '[' and '^'): the
\* ranges and the text after the closing ']', or Bad.
RECURSIVE ClassItems(_, _)
ClassItems(q, ranges) ==
    IF q # <<>> /\ Head(q) = "]" /\ ranges # <<>>
    THEN [ok |-> TRUE, ranges |-> ranges, rest |-> Tail(q)]
    ELSE LET lo == ClassChar(q)
         IN  IF ~lo.ok THEN Bad
             ELSE IF lo.rest # <<>> /\ Head(lo.rest) = "-"
                  THEN LET hi == ClassChar(Tail(lo.rest))
                       IN  IF ~hi.ok THEN Bad
                           ELSE ClassItems(hi.rest, Append(ranges, <<lo.r, hi.r>>))
             ELSE ClassItems(lo.rest, Append(ranges, <<lo.r, lo.r>>))

\* The terms of pattern p, or Bad when p is not a pattern of the grammar.
RECURSIVE GlobTerms(_)
GlobTerms(p) ==
    IF p = <<>> THEN [ok |-> TRUE, terms |-> <<>>]
    ELSE LET then(term, rest) ==
                 LET more == GlobTerms(rest)
                 IN  IF ~more.ok THEN Bad ELSE [ok |-> TRUE, terms |-> <<term>> \o more.terms]
         IN  CASE Head(p) = "*" -> then([kind |-> "star"], Tail(p))
               [] Head(p) = "?" -> then([kind |-> "any"], Tail(p))
               [] Head(p) = "\\" ->
                      IF Len(p) < 2 THEN Bad
                      ELSE then([kind |-> "lit", c |-> p[2]], SubSeq(p, 3, Len(p)))
               [] Head(p) = "[" ->
                      LET neg == Len(p) >= 2 /\ p[2] = "^"
                          cls == ClassItems(SubSeq(p, IF neg THEN 3 ELSE 2, Len(p)), <<>>)
                      IN  IF ~cls.ok THEN Bad
                          ELSE then([kind |-> "class", neg |-> neg, ranges |-> cls.ranges],
                                    cls.rest)
               [] OTHER -> then([kind |-> "lit", c |-> Head(p)], Tail(p))

WellFormedGlob(p) == GlobTerms(p).ok

\* Whether the terms match the whole of name: a star stands for any run of
\* characters without a separator, '?' for one character that is no separator.
RECURSIVE TermsMatch(_, _)
TermsMatch(terms, name) ==
    IF terms = <<>> THEN name = <<>>
    ELSE LET t == Head(terms)
         IN  CASE t.kind = "star" ->
                      \E k \in 0..Len(name) :
                          /\ \A j \in 1..k : name[j] # Separator
                          /\ TermsMatch(Tail(terms), SubSeq(name, k + 1, Len(name)))
               [] t.kind = "any" ->
                      name # <<>> /\ Head(name) # Separator /\ TermsMatch(Tail(terms), Tail(name))
               [] t.kind = "lit" ->
                      name # <<>> /\ Head(name) = t.c /\ TermsMatch(Tail(terms), Tail(name))
               [] t.kind = "class" ->
                      /\ name # <<>>
                      /\ t.neg # (\E i \in DOMAIN t.ranges :
                                      t.ranges[i][1] <= Ord(Head(name))
                                      /\ Ord(Head(name)) <= t.ranges[i][2])
                      /\ TermsMatch(Tail(terms), Tail(name))

GlobMatches(p, name) == WellFormedGlob(p) /\ TermsMatch(GlobTerms(p).terms, name)

(***************************************************************************)
(* Inputs.                                                                  *)
(***************************************************************************)
\* All strings over chars of length at most n.
StringsUpTo(chars, n) == UNION {[1..k -> chars] : k \in 0..n}

\* n copies of character c.
Repeat(c, n) == [i \in 1..n |-> c]

\* Tags tried on validateTag: every string of at most MaxTagCore characters
\* over letters, a digit, the underscore and the glob characters; strings of
\* every length up to MaxTagPad + 1 around the regular expression's bounds;
\* and the patterns of the README and the tests.
MaxTagCore == 4

MaxTagPad == 21

ValidateChars == {"a", "Z", "7", "_", "-", "*", "?", "[", "]", "^", "\\"}

SampleTags ==
    { <<"w", "o", "r", "k", "_", "*">>,
      <<"d", "e", "v", "?">>,
      <<"[", "a", "b", "c", "]", "*">>,
      <<"[", "a", "-", "z", "]", "*">>,
      <<"[", "^", "t", "e", "s", "t", "]", "*">>,
      <<"s", "e", "r", "v", "e", "r", "[", "1", "-", "3", "]", "*">>,
      <<"*", "_", "t", "e", "m", "p", "*">>,
      <<"w", "o", "r", "k", "_", "[">>,
      <<"w", "o", "r", "k", "_", "[", "]">>,
      <<"w", "o", "r", "k", "-", "l", "a", "p", "t", "o", "p">>,
      <<"w", "o", "r", "k", " ", "l", "a", "p", "t", "o", "p">>,
      <<"h", "o", "m", "e", "/", "w", "o", "r", "k">>,
      <<"[", "a", "-", "\\", "]", "]", "x">>,
      <<"d", "e", "v", "]">> }

ValidateInputs ==
    StringsUpTo(ValidateChars, MaxTagCore)
    \cup {head \o Repeat("b", n) : head \in StringsUpTo({"a", "7", "*"}, 1), n \in 0..MaxTagPad}
    \cup SampleTags

(***************************************************************************)
(* validateTag, called on one tag.                                          *)
(***************************************************************************)
InitValidate ==
    /\ pc = "call"
    /\ args \in {[fn |-> "validateTag", tag |-> t] : t \in ValidateInputs}
    /\ ret = "none"

CallValidateTag ==
    /\ pc = "call"
    /\ args.fn = "validateTag"
    /\ ret' = validateTag(args.tag)
    /\ pc' = "done"
    /\ UNCHANGED args

NextValidate == CallValidateTag

SpecValidate == InitValidate /\ [][NextValidate]_vars

\* C8: validateTag accepts a tag iff it is a wildcard pattern (contains '*',
\* '?' or '[') that is a well-formed glob pattern, or a literal of 3 to 20
\* characters, first a letter, then only letters, digits and underscores.
C8_ValidateTagAcceptsIff ==
    (pc = "done" /\ args.fn = "validateTag") =>
        ((ret = Nil) <=>
            IF ContainsAny(args.tag, {"*", "?", "["})
            THEN WellFormedGlob(args.tag)
            ELSE /\ Len(args.tag) >= 3
                 /\ Len(args.tag) <= 20
                 /\ IsLetter(args.tag[1])
                 /\ \A i \in DOMAIN args.tag : IsLetter(args.tag[i]) \/ IsDigit(args.tag[i]) \/ args.tag[i] = "_")

\* What validateTag does: the same with ']' counted among the wildcard
\* characters, so that a tag with a ']' and no '[' is accepted as a pattern.
ValidateTagAsCoded ==
    (pc = "done" /\ args.fn = "validateTag") =>
        ((ret = Nil) <=>
            IF ContainsAny(args.tag, {"*", "?", "[", "]"})
            THEN WellFormedGlob(args.tag)
            ELSE /\ Len(args.tag) >= 3
                 /\ Len(args.tag) <= 20
                 /\ IsLetter(args.tag[1])
                 /\ \A i \in DOMAIN args.tag : IsLetter(args.tag[i]) \/ IsDigit(args.tag[i]) \/ args.tag[i] = "_")

(***************************************************************************)
(* matchesTagConditions, called on a tag list and a condition list.         *)
(***************************************************************************)
\* Sequences over set of length lo..hi.
SeqsBetween(set, lo, hi) == UNION {[1..k -> set] : k \in lo..hi}

MaxPathTags == 2

MaxGroups == 2

MaxGroupTags == 2

\* Tags a configuration may give a path.
PathTagPool == { <<"D", "e", "v">>, <<"m", "a", "c">>, <<"w", "e", "b">> }

\* Tags a filter expression may hold: a literal and a pattern.
FilterTagPool == { <<"d", "e", "v">>, <<"M", "*">> }

PathTagLists == SeqsBetween(PathTagPool, 0, MaxPathTags)

ConditionLists ==
    SeqsBetween(SeqsBetween(FilterTagPool, 0, MaxGroupTags), 0, MaxGroups)

InitMatch ==
    /\ pc = "call"
    /\ args \in {[fn |-> "matchesTagConditions", pathTags |-> t, conditions |-> c] :
                     t \in PathTagLists, c \in ConditionLists}
    /\ ret = "none"

CallMatchesTagConditions ==
    /\ pc = "call"
    /\ args.fn = "matchesTagConditions"
    /\ ret' = matchesTagConditions(args.pathTags, args.conditions)
    /\ pc' = "done"
    /\ UNCHANGED args

NextMatch == CallMatchesTagConditions

SpecMatch == InitMatch /\ [][NextMatch]_vars

\* A filter tag matches a path tag: equal ignoring case, or, for a filter tag
\* with a wildcard, matching as a glob pattern ignoring case.
FilterTagMatches(f, t) ==
    IF ContainsAny(f, {"*", "?", "["}) THEN GlobMatches(ToLower(f), ToLower(t))
    ELSE Len(f) = Len(t) /\ \A i \in 1..Len(f) : ToLowerChar(f[i]) = ToLowerChar(t[i])

\* A condition list matches a tag list: some OR-group has every one of its
\* tags matching some tag of the list.
ConditionsMatch(pathTags, conditions) ==
    \E g \in DOMAIN conditions :
        \A k \in DOMAIN conditions[g] :
            \E j \in DOMAIN pathTags : FilterTagMatches(conditions[g][k], pathTags[j])

\* C6: matchesTagConditions is true iff the condition list is non-empty and
\* some OR-group has every tag matched by some path tag; false on no conditions.
C6_MatchesIffSomeGroupAllMatched ==
    (pc = "done" /\ args.fn = "matchesTagConditions") =>
        /\ ret = (args.conditions # <<>> /\ ConditionsMatch(args.pathTags, args.conditions))
        /\ (args.conditions = <<>> => ret = FALSE)

\* C6 witness: a call with two OR-groups where only the second, an AND of a
\* literal and a pattern, is matched.
C6_Witness ==
    /\ pc = "done"
    /\ args.fn = "matchesTagConditions"
    /\ Len(args.conditions) = 2
    /\ Len(args.conditions[2]) = 2
    /\ ~allMatch(args.pathTags, args.conditions[1])
    /\ ret = TRUE

(***************************************************************************)
(* hasMatchingTag, called on one path tag and one wildcard pattern.         *)
(***************************************************************************)
MaxPatLen == 3

MaxNameLen == 2

PatChars == {"a", "B", "*", "?", "[", "]"}

NameChars == {"a", "B"}

WorkStar == <<"w", "o", "r", "k", "_", "*">>

WORK_PROD == <<"W", "O", "R", "K", "_", "P", "R", "O", "D">>

Work_Dev == <<"W", "o", "r", "k", "_", "D", "e", "v">>

\* Patterns a filter can hold: those validateTag accepts that have a wildcard.
WildcardPatterns ==
    {p \in StringsUpTo(PatChars, MaxPatLen) \cup {WorkStar} :
        ContainsAny(p, {"*", "?", "["}) /\ validateTag(p) = Nil}

InitWildcard ==
    /\ pc = "call"
    /\ args \in {[fn |-> "hasMatchingTag", pathTags |-> <<t>>, pattern |-> p] :
                     t \in StringsUpTo(NameChars, MaxNameLen) \cup {WORK_PROD, Work_Dev},
                     p \in WildcardPatterns}
    /\ ret = "none"

CallHasMatchingTag ==
    /\ pc = "call"
    /\ args.fn = "hasMatchingTag"
    /\ ret' = hasMatchingTag(args.pathTags, args.pattern)
    /\ pc' = "done"
    /\ UNCHANGED args

NextWildcard == CallHasMatchingTag

SpecWildcard == InitWildcard /\ [][NextWildcard]_vars

\* The strings that differ from s only in the case of their letters.
RECURSIVE CaseVariants(_)
CaseVariants(s) ==
    IF s = <<>> THEN {<<>>}
    ELSE {<<c>> \o v : c \in {ToLowerChar(Head(s)), ToUpperChar(Head(s))},
                      v \in CaseVariants(Tail(s))}

\* C7: whether a wildcard pattern matches a tag is the same for every
\* upper/lower-case variant of the pattern and of the tag; work_* matches
\* WORK_PROD and Work_Dev.
C7_WildcardCaseInsensitive ==
    (pc = "done" /\ args.fn = "hasMatchingTag") =>
        /\ \A p2 \in CaseVariants(args.pattern) :
               \A t2 \in CaseVariants(args.pathTags[1]) :
                   hasMatchingTag(<<t2>>, p2) = ret
        /\ (args.pattern = WorkStar /\ args.pathTags[1] \in {WORK_PROD, Work_Dev} => ret = TRUE)

\* C7 witness: work_* was matched against WORK_PROD.
C7_Witness ==
    /\ pc = "done"
    /\ args.fn = "hasMatchingTag"
    /\ args.pattern = WorkStar
    /\ args.pathTags = <<WORK_PROD>>
    /\ ret = TRUE

(***************************************************************************)
(* shouldIncludePath, called on effective tags, the explicitly-tagged flag  *)
(* and a TagFilter.                                                         *)
(***************************************************************************)
TagDev == <<"d", "e", "v">>

TagMStar == <<"M", "*">>

TagWeb == <<"W", "E", "B">>

TagStar == <<"*">>

\* One side of a TagFilter: absent, one tag, an AND, an OR, a pattern that
\* matches every tag, and a group without tags (which every list satisfies).
FilterSides ==
    { <<>>,
      << <<TagDev>> >>,
      << <<TagMStar>> >>,
      << <<TagWeb>> >>,
      << <<TagDev, TagMStar>> >>,
      << <<TagDev>>, <<TagMStar>> >>,
      << <<TagStar>> >>,
      << <<>> >> }

InitInclude ==
    /\ pc = "call"
    /\ args \in {[fn |-> "shouldIncludePath", pathTags |-> t, isExplicitlyTagged |-> e,
                  filter |-> [Include |-> i, Exclude |-> x]] :
                     t \in PathTagLists, e \in BOOLEAN, i \in FilterSides, x \in FilterSides}
    /\ ret = "none"

CallShouldIncludePath ==
    /\ pc = "call"
    /\ args.fn = "shouldIncludePath"
    /\ ret' = shouldIncludePath(args.pathTags, args.isExplicitlyTagged, args.filter)
    /\ pc' = "done"
    /\ UNCHANGED args

NextInclude == CallShouldIncludePath

SpecInclude == InitInclude /\ [][NextInclude]_vars

\* C1: untagged immunity: an entry without a tags field and without
\* effective tags is included whatever the filter.
C1_UntaggedImmunity ==
    (/\ pc = "done"
     /\ args.fn = "shouldIncludePath"
     /\ ~args.isExplicitlyTagged
     /\ args.pathTags = <<>>) => ret = TRUE

\* C1 witness: an immune entry was included under an include filter it does
\* not meet and an exclude filter whose only group every tag list satisfies.
C1_Witness ==
    /\ pc = "done"
    /\ args.fn = "shouldIncludePath"
    /\ ~args.isExplicitlyTagged
    /\ args.pathTags = <<>>
    /\ args.filter.Include = << <<TagDev>> >>
    /\ args.filter.Exclude = << <<>> >>
    /\ ret = TRUE

\* C2: exclude dominance: for an entry that is explicitly tagged or has an
\* effective tag, the result is false when Exclude is non-empty and matches
\* (even if Include matches too), else false iff Include is non-empty and
\* does not match, else true.
C2_ExcludeDominance ==
    (/\ pc = "done"
     /\ args.fn = "shouldIncludePath"
     /\ (args.isExplicitlyTagged \/ Len(args.pathTags) >= 1)) =>
        ret = (IF args.filter.Exclude # <<>> /\ ConditionsMatch(args.pathTags, args.filter.Exclude)
               THEN FALSE
               ELSE IF args.filter.Include # <<>>
                       /\ ~ConditionsMatch(args.pathTags, args.filter.Include)
               THEN FALSE
               ELSE TRUE)

\* C2 witness: Include and Exclude both match the entry's tags, and it is excluded.
C2_Witness ==
    /\ pc = "done"
    /\ args.fn = "shouldIncludePath"
    /\ Len(args.pathTags) >= 1
    /\ args.filter.Include # <<>>
    /\ args.filter.Exclude # <<>>
    /\ ConditionsMatch(args.pathTags, args.filter.Include)
    /\ ConditionsMatch(args.pathTags, args.filter.Exclude)
    /\ ret = FALSE

(***************************************************************************)
(* parseTagFilter, called on one filter expression.                         *)
(***************************************************************************)
MaxExprLen == 5

ExprChars == {"a", "*", "[", ",", "+", " "}

SampleExprs ==
    { <<"d", "e", "v", "+", "w", "o", "r", "k", ",", "a", "u", "d", "i", "o">>,
      <<"g", "a", "m", "i", "n", "g", ",", "v", "i", "d", "e", "o">>,
      <<" ", "d", "e", "v", " ", "+", "w", "_", "*", ",", " ", ",", "m", "a", "c", " ">>,
      <<"d", "e", "v", "+", ",", "m", "a", "c">>,
      <<"d", "e", "v", ",", "m", "a">> }

InitParse ==
    /\ pc = "call"
    /\ args \in {[fn |-> "parseTagFilter", filter |-> e] :
                     e \in StringsUpTo(ExprChars, MaxExprLen) \cup SampleExprs}
    /\ ret = "none"

CallParseTagFilter ==
    /\ pc = "call"
    /\ args.fn = "parseTagFilter"
    /\ ret' = parseTagFilter(args.filter)
    /\ pc' = "done"
    /\ UNCHANGED args

NextParse == CallParseTagFilter

SpecParse == InitParse /\ [][NextParse]_vars

\* The pieces of s between the occurrences of sep, by position: piece k
\* lies between the (k-1)-th and the k-th occurrence.
Pieces(s, sep) ==
    LET at == {i \in DOMAIN s : s[i] = sep}
        nth(k) == IF k = 0 THEN 0
                  ELSE IF k = Cardinality(at) + 1 THEN Len(s) + 1
                  ELSE CHOOSE i \in at : Cardinality({j \in at : j <= i}) = k
    IN  [k \in 1..(Cardinality(at) + 1) |-> SubSeq(s, nth(k - 1) + 1, nth(k) - 1)]

IsBlank(s) == \A i \in DOMAIN s : s[i] = " "

\* The AND tags of one OR segment, each with its surrounding blanks removed.
AndTagsOf(segment) ==
    LET parts == Pieces(segment, "+") IN [k \in DOMAIN parts |-> TrimSpace(parts[k])]

\* The OR segments of an expression that are not blank, in input order.
NonBlankSegments(expr) == SelectSeq(Pieces(expr, ","), LAMBDA g : ~IsBlank(g))

\* C9: parseTagFilter splits on ',' then '+', skips blank OR segments, fails
\* iff a non-blank OR segment has a blank AND segment or a tag validateTag
\* rejects, and on success returns the groups and their tags in input order.
C9_ParseTagFilter ==
    (pc = "done" /\ args.fn = "parseTagFilter") =>
        LET segs == NonBlankSegments(args.filter)
            groups == [g \in DOMAIN segs |-> AndTagsOf(segs[g])]
            failing == \E g \in DOMAIN groups : \E k \in DOMAIN groups[g] :
                           groups[g][k] = <<>> \/ validateTag(groups[g][k]) # Nil
        IN  /\ (ret.err # Nil) <=> failing
            /\ ret.err = Nil => ret.result = groups

\* C9 witness: an expression with a blank OR segment between two groups, the
\* first an AND of two tags, was parsed without error.
C9_Witness ==
    /\ pc = "done"
    /\ args.fn = "parseTagFilter"
    /\ Len(Pieces(args.filter, ",")) = 3
    /\ ret.err = Nil
    /\ Len(ret.result) = 2
    /\ Len(ret.result[1]) = 2

(***************************************************************************)
(* Library calls of the configuration code: os.ExpandEnv, filepath.Clean    *)
(* and os.Stat.                                                             *)
(***************************************************************************)
\* The process environment: H is set, every other variable is unset.
Getenv(name) == IF name = <<"H">> THEN <<"/", "h">> ELSE <<>>

IsAlphaNum(c) == c = "_" \/ IsDigit(c) \/ IsLetter(c)

IsShellSpecialVar(c) == c \in {"*", "#", "$", "@", "!", "?", "-"} \/ IsDigit(c)

\* os.getShellName: the variable name at the head of s and the characters it
\* takes; s is the text after a '$' and is not empty.
getShellName(s) ==
    IF s[1] = "{"
    THEN IF Len(s) > 2 /\ IsShellSpecialVar(s[2]) /\ s[3] = "}"
         THEN [name |-> <<s[2]>>, w |-> 3]
         ELSE IF \E i \in 2..Len(s) : s[i] = "}"
         THEN LET i == CHOOSE k \in 2..Len(s) : s[k] = "}" /\ \A j \in 2..(k - 1) : s[j] # "}"
              IN  IF i = 2 THEN [name |-> <<>>, w |-> 2]
                  ELSE [name |-> SubSeq(s, 2, i - 1), w |-> i]
         ELSE [name |-> <<>>, w |-> 1]
    ELSE IF IsShellSpecialVar(s[1]) THEN [name |-> <<s[1]>>, w |-> 1]
    ELSE LET n == IF \E i \in DOMAIN s : ~IsAlphaNum(s[i])
                  THEN (CHOOSE k \in DOMAIN s :
                            ~IsAlphaNum(s[k]) /\ \A j \in 1..(k - 1) : IsAlphaNum(s[j])) - 1
                  ELSE Len(s)
         IN  [name |-> SubSeq(s, 1, n), w |-> n]

\* os.ExpandEnv(s): $name and ${name} replaced by the variable's value, an
\* unset variable by the empty string, a '$' without a name kept.
RECURSIVE ExpandEnv(_)
ExpandEnv(s) ==
    IF s = <<>> THEN <<>>
    ELSE IF s[1] = "$" /\ Len(s) > 1
    THEN LET named(n) ==
                 (IF n.name = <<>> /\ n.w > 0 THEN <<>>
                  ELSE IF n.name = <<>> THEN <<"$">>
                  ELSE Getenv(n.name)) \o ExpandEnv(SubSeq(s, n.w + 2, Len(s)))
         IN  named(getShellName(Tail(s)))
    ELSE <<s[1]>> \o ExpandEnv(Tail(s))

\* The elements filepath.Clean keeps: empty and "." elements dropped, ".."
\* removing the element before it, kept at the head of a relative path and
\* dropped at the root.
RECURSIVE cleanElements(_, _, _)
cleanElements(elems, out, rooted) ==
    IF elems = <<>> THEN out
    ELSE LET e == Head(elems) IN
         IF e = <<>> \/ e = <<".">> THEN cleanElements(Tail(elems), out, rooted)
         ELSE IF e = <<".", ".">>
         THEN IF out # <<>> /\ out[Len(out)] # <<".", ".">>
              THEN cleanElements(Tail(elems), SubSeq(out, 1, Len(out) - 1), rooted)
              ELSE IF rooted THEN cleanElements(Tail(elems), out, rooted)
              ELSE cleanElements(Tail(elems), Append(out, e), rooted)
         ELSE cleanElements(Tail(elems), Append(out, e), rooted)

\* filepath.Clean(path) on Unix.
Clean(path) ==
    IF path = <<>> THEN <<".">>
    ELSE LET joined(rooted, body) ==
                 IF rooted THEN <<"/">> \o body
                 ELSE IF body = <<>> THEN <<".">>
                 ELSE body
         IN  joined(path[1] = "/",
                    Join(cleanElements(Split(path, "/"), <<>>, path[1] = "/"), <<"/">>))

\* What the file system holds at a cleaned path.
KindAt(fs, path) == IF path \in DOMAIN fs THEN fs[path] ELSE "absent"

\* os.Stat(name): ENOENT when nothing is there, EACCES when the path may
\* not be searched, ENOTDIR when a regular file is named with a trailing
\* separator, else the kind of what is found.
Stat(fs, name) ==
    LET found(kind) ==
            IF name = <<>> \/ kind = "absent" THEN [err |-> "ENOENT", IsDir |-> FALSE]
            ELSE IF kind = "denied" THEN [err |-> "EACCES", IsDir |-> FALSE]
            ELSE IF kind = "file" /\ name[Len(name)] \in {"/", "."} /\ Len(name) > 1
            THEN [err |-> "ENOTDIR", IsDir |-> FALSE]
            ELSE [err |-> Nil, IsDir |-> kind = "dir"]
    IN  found(KindAt(fs, Clean(name)))

\* os.IsNotExist(err).
IsNotExist(err) == err = "ENOENT"

(***************************************************************************)
(* Configuration entries: validateTags, extractPathEntries, PathEntry.      *)
(* A []string that may be nil is a record with a nil flag and its elements; *)
(* a decoded YAML item is a record naming its type and its fields.          *)
(***************************************************************************)
NilSlice == [nil |-> TRUE, elems |-> <<>>]

SliceOf(elems) == [nil |-> FALSE, elems |-> elems]

\* validateTags: nil for an empty list, else the first duplicate (compared
\* in lower case) or invalid tag met in order.
RECURSIVE validateTagsLoop(_, _)
validateTagsLoop(tags, seen) ==
    IF tags = <<>> THEN Nil
    ELSE LET each(tagLower, err) ==
                 IF tagLower \in seen THEN "duplicate tag"
                 ELSE IF err # Nil THEN err
                 ELSE validateTagsLoop(Tail(tags), seen \cup {tagLower})
         IN  each(ToLower(Head(tags)), validateTag(Head(tags)))

validateTags(tags) == IF Len(tags) = 0 THEN Nil ELSE validateTagsLoop(tags, {})

PathEntry(path, tags) == [Path |-> path, Tags |-> tags]

\* The tags of one map item: the strings of the tags array, or the error of
\* a tags value that is not an array or holds a non-string.
itemTags(item) ==
    IF ~item.hasTags THEN [tags |-> NilSlice, err |-> Nil]
    ELSE IF ~item.tagsIsSlice THEN [tags |-> NilSlice, err |-> "invalid tags format"]
    ELSE IF \E k \in DOMAIN item.tags : ~item.tags[k].isString
    THEN [tags |-> NilSlice, err |-> "invalid tag type"]
    ELSE LET validated(strs, err) ==
                 IF err # Nil THEN [tags |-> NilSlice, err |-> err]
                 ELSE [tags |-> SliceOf(strs), err |-> Nil]
         IN  validated([k \in DOMAIN item.tags |-> item.tags[k].s],
                       validateTags([k \in DOMAIN item.tags |-> item.tags[k].s]))

RECURSIVE extractPathEntriesLoop(_, _)
extractPathEntriesLoop(paths, result) ==
    IF paths = <<>> THEN [result |-> result, err |-> Nil]
    ELSE LET mapped(item, t) ==
                 IF ~item.hasPath THEN [result |-> <<>>, err |-> "missing 'path' field"]
                 ELSE IF t.err # Nil THEN [result |-> <<>>, err |-> t.err]
                 ELSE extractPathEntriesLoop(Tail(paths),
                                             Append(result, PathEntry(item.path, t.tags)))
             each(item) ==
                 IF item.type = "string"
                 THEN extractPathEntriesLoop(Tail(paths),
                                             Append(result, PathEntry(item.path, NilSlice)))
                 ELSE IF item.type = "map" THEN mapped(item, itemTags(item))
                 ELSE [result |-> <<>>, err |-> "invalid path entry"]
         IN  each(Head(paths))

extractPathEntries(paths) == extractPathEntriesLoop(paths, <<>>)

\* A variant of GetEffectiveTags that inherits whenever the entry has no tag.
GetEffectiveTags_InheritWhenEmpty(pe, platformTags) ==
    IF Len(pe.Tags.elems) > 0 THEN pe.Tags.elems ELSE platformTags

GetEffectiveTags(pe, platformTags) ==
    IF ~pe.Tags.nil THEN pe.Tags.elems ELSE platformTags

IsExplicitlyTagged(pe) == ~pe.Tags.nil

validateConfig(cfg) ==
    LET first(errs) ==
            IF \E k \in DOMAIN errs : errs[k] # Nil
            THEN errs[CHOOSE k \in DOMAIN errs :
                          errs[k] # Nil /\ \A j \in 1..(k - 1) : errs[j] = Nil]
            ELSE Nil
    IN  first([k \in 1..3 |-> validateTags(<<cfg.All, cfg.Linux, cfg.MacOS>>[k].Tags)])

(***************************************************************************)
(* One section's items extracted, then one entry's tags resolved and        *)
(* filtered as processEntries does.                                         *)
(***************************************************************************)
StringItem(path) ==
    [type |-> "string", hasPath |-> FALSE, path |-> path,
     hasTags |-> FALSE, tagsIsSlice |-> FALSE, tags |-> <<>>]

\* A map item with a path and no tags field.
MapItem(path) ==
    [type |-> "map", hasPath |-> TRUE, path |-> path,
     hasTags |-> FALSE, tagsIsSlice |-> FALSE, tags |-> <<>>]

\* A map item with a path and a tags array of strings.
TaggedItem(path, tags) ==
    [type |-> "map", hasPath |-> TRUE, path |-> path, hasTags |-> TRUE, tagsIsSlice |-> TRUE,
     tags |-> [k \in DOMAIN tags |-> [isString |-> TRUE, s |-> tags[k]]]]

TagMac == <<"m", "a", "c">>

PathA == <<"/", "a">>

PathASlash == <<"/", "a", "/">>

PathH == <<"$", "H">>

RawItems ==
    { StringItem(PathA),
      MapItem(PathH),
      TaggedItem(PathASlash, <<>>),
      TaggedItem(PathH, <<TagMac>>),
      TaggedItem(PathA, <<TagMac, <<"M", "A", "C">> >>),
      TaggedItem(PathA, <<<<"x">>>>),
      [type |-> "map", hasPath |-> FALSE, path |-> <<>>,
       hasTags |-> FALSE, tagsIsSlice |-> FALSE, tags |-> <<>>],
      [type |-> "map", hasPath |-> TRUE, path |-> PathA,
       hasTags |-> TRUE, tagsIsSlice |-> FALSE, tags |-> <<>>],
      [type |-> "map", hasPath |-> TRUE, path |-> PathA, hasTags |-> TRUE, tagsIsSlice |-> TRUE,
       tags |-> <<[isString |-> FALSE, s |-> <<"7">>]>>],
      [type |-> "number", hasPath |-> FALSE, path |-> <<>>,
       hasTags |-> FALSE, tagsIsSlice |-> FALSE, tags |-> <<>>] }

MaxItems == 2

SimpleFilters ==
    { [Include |-> <<>>, Exclude |-> <<>>],
      [Include |-> << <<TagDev>> >>, Exclude |-> <<>>],
      [Include |-> <<>>, Exclude |-> << <<TagDev>> >>] }

InitEntries ==
    /\ pc = "call"
    /\ args \in {[fn |-> "extractPathEntries", paths |-> l, platformTags |-> t, filter |-> f] :
                     l \in SeqsBetween(RawItems, 0, MaxItems),
                     t \in {<<>>, <<TagDev>>},
                     f \in SimpleFilters}
    /\ ret = "none"

CallExtractPathEntries ==
    /\ pc = "call"
    /\ args.fn = "extractPathEntries"
    /\ ret' = extractPathEntries(args.paths)
    /\ pc' = "extracted"
    /\ UNCHANGED args

\* One iteration of processEntries on an extracted entry: its effective
\* tags, its explicitly-tagged flag and the filter's verdict.
ResolveEntryTags ==
    /\ pc = "extracted"
    /\ ret.err = Nil
    /\ \E i \in DOMAIN ret.result :
           LET entry == ret.result[i]
               effectiveTags == GetEffectiveTags(entry, args.platformTags)
           IN  ret' = [index |-> i,
                       effectiveTags |-> effectiveTags,
                       explicit |-> IsExplicitlyTagged(entry),
                       passes |-> shouldIncludePath(effectiveTags, IsExplicitlyTagged(entry),
                                                    args.filter)]
    /\ pc' = "done"
    /\ UNCHANGED args

NextEntries == CallExtractPathEntries \/ ResolveEntryTags

SpecEntries == InitEntries /\ [][NextEntries]_vars

\* C3: inheritance exclusivity: an entry's effective tags are its own list
\* whenever the tags field was present (even empty) and the section's
\* default tags only when it was absent; an entry with an explicit empty
\* list gets no default tag, is explicitly tagged and is not immune: an
\* include filter rejects it.
C3_InheritanceExclusivity ==
    (pc = "done" /\ args.fn = "extractPathEntries") =>
        LET item == args.paths[ret.index]
            present == item.type = "map" /\ item.hasTags
            own == [k \in DOMAIN item.tags |-> item.tags[k].s]
        IN  /\ ret.effectiveTags = (IF present THEN own ELSE args.platformTags)
            /\ ret.explicit = present
            /\ (present /\ own = <<>>) =>
                   /\ ret.effectiveTags = <<>>
                   /\ ret.explicit
                   /\ (args.filter.Include # <<>> => ~ret.passes)

\* C3 witness: an entry with an explicit empty tag list in a section whose
\* default tags meet the include filter was resolved to no tags and rejected.
C3_Witness ==
    /\ pc = "done"
    /\ args.fn = "extractPathEntries"
    /\ args.paths[ret.index] = TaggedItem(PathASlash, <<>>)
    /\ args.platformTags = <<TagDev>>
    /\ args.filter.Include = << <<TagDev>> >>
    /\ ret.effectiveTags = <<>>
    /\ ret.explicit
    /\ ~ret.passes

(***************************************************************************)
(* Skip reasons of the dry-run report.                                      *)
(***************************************************************************)
\* The decimal digits of a natural number, as fmt's %d prints it.
RECURSIVE Itoa(_)
Itoa(n) ==
    IF n < 10 THEN <<Ascii[Ord("0") - 31 + n]>>
    ELSE Itoa(n \div 10) \o <<Ascii[Ord("0") - 31 + (n % 10)]>>

\* A variant of formatTagsForDisplay that counts every tag as remaining.
formatTagsForDisplay_CountAll(tags) ==
    IF Len(tags) = 0 THEN <<>>
    ELSE IF Len(tags) = 1 THEN tags[1]
    ELSE IF Len(tags) = 2 THEN tags[1] \o <<",">> \o tags[2]
    ELSE tags[1] \o <<",">> \o tags[2] \o <<" ", "(", "+">> \o Itoa(Len(tags)) \o <<")">>

formatTagsForDisplay(tags) ==
    IF Len(tags) = 0 THEN <<>>
    ELSE IF Len(tags) = 1 THEN tags[1]
    ELSE IF Len(tags) = 2 THEN tags[1] \o <<",">> \o tags[2]
    ELSE tags[1] \o <<",">> \o tags[2] \o <<" ", "(", "+">> \o Itoa(Len(tags) - 2) \o <<")">>

formatTagConditions(conditions) ==
    Join([g \in DOMAIN conditions |->
              IF Len(conditions[g]) = 1 THEN conditions[g][1]
              ELSE Join(conditions[g], <<"+">>)], <<",">>)

\* The first pair (path tag, exclude tag), path tags outermost, in which the
\* path tag matches the exclude tag; "tag = tag", or empty without a pair.
firstMatchingPair(pathTags, andGroup) ==
    LET reason(first) == pathTags[first[1]] \o <<" ", "=", " ">> \o andGroup[first[2]]
        among(pairs) ==
            IF pairs = {} THEN <<>>
            ELSE reason(CHOOSE q \in pairs :
                            \A r \in pairs : q[1] < r[1] \/ (q[1] = r[1] /\ q[2] <= r[2]))
    IN  among({<<i, k>> \in (DOMAIN pathTags) \X (DOMAIN andGroup) :
                   hasMatchingTag(<<pathTags[i]>>, andGroup[k])})

\* A variant of getExcludeReason that reports the first pair of any group,
\* whether or not the whole group is matched.
RECURSIVE getExcludeReason_AnyGroup(_, _)
getExcludeReason_AnyGroup(pathTags, excludeConditions) ==
    IF excludeConditions = <<>> THEN <<>>
    ELSE LET each(pair) ==
                 IF pair # <<>> THEN pair
                 ELSE getExcludeReason_AnyGroup(pathTags, Tail(excludeConditions))
         IN  each(firstMatchingPair(pathTags, Head(excludeConditions)))

RECURSIVE getExcludeReason(_, _)
getExcludeReason(pathTags, excludeConditions) ==
    IF excludeConditions = <<>> THEN <<>>
    ELSE LET each(matched, pair) ==
                 IF matched /\ pair # <<>> THEN pair
                 ELSE getExcludeReason(pathTags, Tail(excludeConditions))
         IN  each(allMatch(pathTags, Head(excludeConditions)),
                  firstMatchingPair(pathTags, Head(excludeConditions)))

getIncludeFailureReason(pathTags, includeConditions) ==
    IF matchesTagConditions(pathTags, includeConditions) THEN <<>>
    ELSE (IF Len(pathTags) > 0 THEN formatTagsForDisplay(pathTags)
          ELSE <<"n", "o", " ", "t", "a", "g", "s">>)
             \o <<" ", "!", "=", " ">> \o formatTagConditions(includeConditions)

SkipReason(type, detail) == [Type |-> type, Detail |-> detail]

\* getPathSkipReasons: the reasons to skip, empty (nil) for an included path.
\* A variant of getPathSkipReasons without the early return for entries
\* that have no tags field and inherit none.
getPathSkipReasons_NoImmunity(pathTags, isExplicitlyTagged, filter) ==
    LET reasons(excludeReason, includeReason) ==
            IF Len(filter.Exclude) > 0 /\ excludeReason # <<>>
            THEN <<SkipReason("tags", excludeReason)>>
            ELSE IF Len(filter.Include) > 0 /\ includeReason # <<>>
            THEN <<SkipReason("tags", includeReason)>>
            ELSE <<>>
    IN  reasons(getExcludeReason(pathTags, filter.Exclude),
                getIncludeFailureReason(pathTags, filter.Include))

getPathSkipReasons(pathTags, isExplicitlyTagged, filter) ==
    LET reasons(excludeReason, includeReason) ==
            IF Len(pathTags) = 0 /\ ~isExplicitlyTagged THEN <<>>
            ELSE IF Len(filter.Exclude) > 0 /\ excludeReason # <<>>
            THEN <<SkipReason("tags", excludeReason)>>
            ELSE IF Len(filter.Include) > 0 /\ includeReason # <<>>
            THEN <<SkipReason("tags", includeReason)>>
            ELSE <<>>
    IN  reasons(getExcludeReason(pathTags, filter.Exclude),
                getIncludeFailureReason(pathTags, filter.Include))

(***************************************************************************)
(* Path sources: the PATH variable, the system path files, the shell's      *)
(* additional paths.                                                        *)
(***************************************************************************)
RECURSIVE dedupeLoop(_, _, _)
dedupeLoop(in, seen, out) ==
    IF in = <<>> THEN out
    ELSE IF Head(in) \in seen THEN dedupeLoop(Tail(in), seen, out)
    ELSE dedupeLoop(Tail(in), seen \cup {Head(in)}, Append(out, Head(in)))

dedupePreserveOrder(in) == dedupeLoop(in, {}, <<>>)

getCurrentPath(pathEnv) == IF pathEnv = <<>> THEN <<>> ELSE Split(pathEnv, ":")

resolveSystemPaths(pathEnv) == dedupePreserveOrder(getCurrentPath(pathEnv))

filterExisting(paths, fs) ==
    LET isDir(info) == info.err = Nil /\ info.IsDir
        expandedOf(kept) == [i \in DOMAIN kept |-> ExpandEnv(kept[i])]
    IN  expandedOf(SelectSeq(paths, LAMBDA p : isDir(Stat(fs, ExpandEnv(p)))))

PathS == <<"/", "s">>

\* getSystemPaths: the lines of the system path files, here one file of one line.
getSystemPaths == <<PathS>>

NoShellConfig == [nil |-> TRUE, IncludeSystemPaths |-> FALSE, IncludeSystemPathsAs |-> <<>>]

getShellSpecificPaths(shell, platformConfig) ==
    IF /\ shell = "powershell"
       /\ ~platformConfig.PowerShell.nil
       /\ platformConfig.PowerShell.IncludeSystemPaths
       /\ platformConfig.PowerShell.IncludeSystemPathsAs = <<"p", "a", "t", "h", "u", "n", "i">>
    THEN getSystemPaths
    ELSE <<>>

countValidSystemPaths(shell, platformConfig, fs) ==
    IF shell # "powershell" \/ platformConfig.PowerShell.nil
           \/ ~platformConfig.PowerShell.IncludeSystemPaths
    THEN 0
    ELSE LET isDir(info) == info.err = Nil /\ info.IsDir
         IN  Cardinality({i \in DOMAIN getSystemPaths :
                              isDir(Stat(fs, ExpandEnv(getSystemPaths[i])))})

(***************************************************************************)
(* EvaluateConfigDetailed and resolvePathuniPaths.                          *)
(***************************************************************************)
PathStatus(path, tags, exists, included, passes) ==
    [Path |-> path, Tags |-> tags, Exists |-> exists, Included |-> included,
     PassesFilter |-> passes]

\* A variant of processEntries that filters only the entries that exist.
processEntries_FilterAfterExists(entries, platformTags, tagFilter, fs) ==
    [i \in DOMAIN entries |->
        LET entry == entries[i]
            resolved == Clean(ExpandEnv(entry.Path))
            info == Stat(fs, resolved)
            exists == info.err = Nil /\ info.IsDir
            effectiveTags == GetEffectiveTags(entry, platformTags)
            passes == exists /\ shouldIncludePath(effectiveTags, IsExplicitlyTagged(entry),
                                                  tagFilter)
        IN  [Path |-> resolved, Tags |-> effectiveTags, Exists |-> exists,
             Included |-> passes, PassesFilter |-> passes]]

\* processEntries: one PathStatus per entry, in order.
processEntries(entries, platformTags, tagFilter, fs) ==
    [i \in DOMAIN entries |->
        LET status(resolved, effectiveTags, exists, passes) ==
                PathStatus(resolved, effectiveTags, exists, exists /\ passes, passes)
            stated(resolved, info, effectiveTags, passes) ==
                status(resolved, effectiveTags, info.err = Nil /\ info.IsDir, passes)
            each(entry, resolved, passes) ==
                stated(resolved, Stat(fs, resolved), GetEffectiveTags(entry, platformTags),
                       passes)
        IN  each(entries[i], Clean(ExpandEnv(entries[i].Path)),
                 shouldIncludePath(GetEffectiveTags(entries[i], platformTags),
                                   IsExplicitlyTagged(entries[i]), tagFilter))]

\* The platform branch of EvaluateConfigDetailed: the section's entries,
\* then the shell-specific paths as entries without a tags field.
processPlatform(section, shell, tagFilter, fs) ==
    LET shellEntries(shellPaths) ==
            [i \in DOMAIN shellPaths |-> PathEntry(shellPaths[i], NilSlice)]
        processed(extracted, statuses, shellStatuses) ==
            IF extracted.err # Nil
            THEN [pathStatuses |-> <<>>, systemPathsCount |-> 0, err |-> "failed to parse config"]
            ELSE [pathStatuses |-> statuses \o shellStatuses,
                  systemPathsCount |-> countValidSystemPaths(shell, section, fs),
                  err |-> Nil]
    IN  processed(extractPathEntries(section.Paths),
                  processEntries(extractPathEntries(section.Paths).result, section.Tags,
                                 tagFilter, fs),
                  processEntries(shellEntries(getShellSpecificPaths(shell, section)),
                                 section.Tags, tagFilter, fs))

EvaluateConfigDetailed(cfg, platform, shell, tagFilter, fs) ==
    LET evaluated(all, allStatuses, rest) ==
            IF all.err # Nil
            THEN [pathStatuses |-> <<>>, systemPathsCount |-> 0, err |-> "failed to parse config"]
            ELSE IF rest.err # Nil THEN rest
            ELSE [pathStatuses |-> allStatuses \o rest.pathStatuses,
                  systemPathsCount |-> rest.systemPathsCount,
                  err |-> Nil]
    IN  IF validateConfig(cfg) # Nil
        THEN [pathStatuses |-> <<>>, systemPathsCount |-> 0, err |-> "config validation error"]
        ELSE evaluated(extractPathEntries(cfg.All.Paths),
                       processEntries(extractPathEntries(cfg.All.Paths).result, cfg.All.Tags,
                                      tagFilter, fs),
                       IF platform \in {"Linux", "macOS"}
                       THEN processPlatform(IF platform = "Linux" THEN cfg.Linux ELSE cfg.MacOS,
                                            shell, tagFilter, fs)
                       ELSE [pathStatuses |-> <<>>, systemPathsCount |-> 0, err |-> Nil])

\* The paths of a sequence of statuses, in order.
pathsOf(statuses) == [i \in DOMAIN statuses |-> statuses[i].Path]

\* The paths of the statuses with Included set, in order.
includedPaths(statuses) == pathsOf(SelectSeq(statuses, LAMBDA st : st.Included))

\* The paths of the statuses with PassesFilter set, in order.
passingPaths(statuses) == pathsOf(SelectSeq(statuses, LAMBDA st : st.PassesFilter))

\* A variant of resolvePathuniPaths that keeps only Included entries under
\* every prune policy.
resolvePathuniPaths_AlwaysPrune(cfg, platform, shell, includeFlag, excludeFlag, prune, fs) ==
    LET parsed == parseTagFlags(includeFlag, excludeFlag)
        eval == EvaluateConfigDetailed(cfg, platform, shell, parsed.filter, fs)
        kept == SelectSeq(eval.pathStatuses, LAMBDA st : st.Included)
    IN  IF parsed.err # Nil THEN [out |-> <<>>, err |-> parsed.err]
        ELSE IF eval.err # Nil THEN [out |-> <<>>, err |-> eval.err]
        ELSE [out |-> dedupePreserveOrder([i \in DOMAIN kept |-> kept[i].Path]), err |-> Nil]

resolvePathuniPaths(cfg, platform, shell, includeFlag, excludeFlag, prune, fs) ==
    LET resolved(tagFilter, eval) ==
            IF tagFilter.err # Nil THEN [out |-> <<>>, err |-> tagFilter.err]
            ELSE IF eval.err # Nil THEN [out |-> <<>>, err |-> eval.err]
            ELSE [out |-> dedupePreserveOrder(
                              CASE prune \in {"pathuni", "all"} -> includedPaths(eval.pathStatuses)
                                [] prune \in {"none", "system"} -> passingPaths(eval.pathStatuses)
                                [] OTHER -> includedPaths(eval.pathStatuses)),
                  err |-> Nil]
    IN  resolved(parseTagFlags(includeFlag, excludeFlag),
                 EvaluateConfigDetailed(cfg, platform, shell,
                                        parseTagFlags(includeFlag, excludeFlag).filter, fs))

(***************************************************************************)
(* Configurations, contexts and file systems the evaluation is run on.      *)
(***************************************************************************)
PathM == <<"/", "m">>

PathHome == <<"/", "h">>

\* Items of the all section: a plain string, an explicit empty tag list on
\* a path that cleans to the first one, tagged and untagged map items.
ConfigItems ==
    { StringItem(PathA),
      TaggedItem(PathASlash, <<>>),
      TaggedItem(PathH, <<TagDev>>),
      MapItem(PathH),
      TaggedItem(PathA, <<TagMac>>) }

MaxEntries == 2

LinuxSection ==
    [Tags |-> <<>>, Paths |-> <<TaggedItem(PathA, <<TagDev>>)>>, PowerShell |-> NoShellConfig]

MacOSSection ==
    [Tags |-> <<TagMac>>, Paths |-> <<MapItem(PathM)>>,
     PowerShell |-> [nil |-> FALSE, IncludeSystemPaths |-> TRUE,
                     IncludeSystemPathsAs |-> <<"p", "a", "t", "h", "u", "n", "i">>]]

Configs ==
    {[All |-> [Tags |-> t, Paths |-> l, PowerShell |-> NoShellConfig],
      Linux |-> LinuxSection,
      MacOS |-> MacOSSection] :
         t \in {<<>>, <<TagDev>>}, l \in SeqsBetween(ConfigItems, 0, MaxEntries)}

\* The platform and shell of one invocation.
Contexts ==
    { [platform |-> "Linux", shell |-> "bash"],
      [platform |-> "macOS", shell |-> "bash"],
      [platform |-> "macOS", shell |-> "powershell"] }

\* What lies at each cleaned path: /a a directory, a regular file or
\* nothing, /h a directory or nothing, /m and /s directories.
FileSystems ==
    {(PathA :> a) @@ (PathHome :> h) @@ (PathM :> "dir") @@ (PathS :> "dir") :
         a \in {"dir", "file", "absent"}, h \in {"dir", "absent"}}

EvalFilters ==
    SimpleFilters \cup
        { [Include |-> << <<<<"m", "*">>>> >>, Exclude |-> << <<<<"M", "A", "C">>>> >>] }

InitEvaluate ==
    /\ pc = "call"
    /\ args \in {[fn |-> "EvaluateConfigDetailed", cfg |-> c, platform |-> x.platform,
                  shell |-> x.shell, tagFilter |-> f, fs |-> d] :
                     c \in Configs, x \in Contexts, f \in EvalFilters, d \in FileSystems}
    /\ ret = "none"

CallEvaluateConfigDetailed ==
    /\ pc = "call"
    /\ args.fn = "EvaluateConfigDetailed"
    /\ ret' = EvaluateConfigDetailed(args.cfg, args.platform, args.shell, args.tagFilter, args.fs)
    /\ pc' = "done"
    /\ UNCHANGED args

NextEvaluate == CallEvaluateConfigDetailed

SpecEvaluate == InitEvaluate /\ [][NextEvaluate]_vars

\* The configured entries of one section as written: raw path, whether the
\* tags field is present, the entry's own tags, the section's default tags.
SectionEntries(section) ==
    [i \in DOMAIN section.Paths |->
        LET item == section.Paths[i] IN
        [path |-> item.path,
         present |-> item.type = "map" /\ item.hasTags,
         own |-> [k \in DOMAIN item.tags |-> item.tags[k].s],
         defaults |-> section.Tags]]

\* All entries an evaluation covers, in order: the all section, the
\* platform's section, the shell's additional paths.
ConfiguredEntries(cfg, platform, shell) ==
    LET section == IF platform = "Linux" THEN cfg.Linux ELSE cfg.MacOS
        extra == getShellSpecificPaths(shell, section)
    IN  SectionEntries(cfg.All) \o SectionEntries(section)
            \o [i \in DOMAIN extra |->
                   [path |-> extra[i], present |-> FALSE, own |-> <<>>, defaults |-> section.Tags]]

\* The filter's verdict on an entry as written, from its tags alone.
FilterVerdict(e, filter) ==
    LET tags == IF e.present THEN e.own ELSE e.defaults IN
    IF ~e.present /\ tags = <<>> THEN TRUE
    ELSE IF filter.Exclude # <<>> /\ ConditionsMatch(tags, filter.Exclude) THEN FALSE
    ELSE filter.Include = <<>> \/ ConditionsMatch(tags, filter.Include)

\* The entry's resolved path is an existing directory.
IsExistingDir(fs, raw) == KindAt(fs, Clean(ExpandEnv(raw))) = "dir"

\* C5: every PathStatus has Included = Exists /\ PassesFilter, Exists true
\* iff the expanded, cleaned path is an existing directory, PassesFilter
\* decided by effective tags, explicit flag and filter, never by Exists.
C5_IncludedIsExistsAndPasses ==
    (pc = "done" /\ args.fn = "EvaluateConfigDetailed" /\ ret.err = Nil) =>
        LET entries == ConfiguredEntries(args.cfg, args.platform, args.shell) IN
        /\ Len(ret.pathStatuses) = Len(entries)
        /\ \A i \in DOMAIN entries :
               LET st == ret.pathStatuses[i] IN
               /\ st.Included = (st.Exists /\ st.PassesFilter)
               /\ st.Exists = IsExistingDir(args.fs, entries[i].path)
               /\ st.PassesFilter = FilterVerdict(entries[i], args.tagFilter)

\* C5 witness: one evaluation produced an entry that passes the filter but
\* is a regular file, and an existing directory that the filter rejects.
C5_Witness ==
    /\ pc = "done"
    /\ args.fn = "EvaluateConfigDetailed"
    /\ ret.err = Nil
    /\ \E i, j \in DOMAIN ret.pathStatuses :
           /\ ~ret.pathStatuses[i].Exists
           /\ KindAt(args.fs, ret.pathStatuses[i].Path) = "file"
           /\ ret.pathStatuses[i].PassesFilter
           /\ ~ret.pathStatuses[i].Included
           /\ ret.pathStatuses[j].Exists
           /\ ~ret.pathStatuses[j].PassesFilter
           /\ ~ret.pathStatuses[j].Included

(***************************************************************************)
(* resolvePathuniPaths under each prune policy.                             *)
(***************************************************************************)
\* The --tags-include and --tags-exclude flags of one invocation.
FlagPairs ==
    { [include |-> <<>>, exclude |-> <<>>],
      [include |-> TagDev, exclude |-> <<>>],
      [include |-> <<>>, exclude |-> <<"D", "*">>],
      [include |-> <<"m", "*">>, exclude |-> <<"M", "A", "C">>],
      [include |-> <<"d", "e", "v", "+">>, exclude |-> <<>>] }

Prunes == {"none", "pathuni", "system", "all"}

InitResolve ==
    /\ pc = "call"
    /\ args \in {[fn |-> "resolvePathuniPaths", cfg |-> c, platform |-> x.platform,
                  shell |-> x.shell, tagsInclude |-> f.include, tagsExclude |-> f.exclude,
                  prune |-> p, fs |-> d] :
                     c \in Configs, x \in Contexts, f \in FlagPairs, p \in Prunes,
                     d \in FileSystems}
    /\ ret = "none"

CallResolvePathuniPaths ==
    /\ pc = "call"
    /\ args.fn = "resolvePathuniPaths"
    /\ ret' = resolvePathuniPaths(args.cfg, args.platform, args.shell, args.tagsInclude,
                                  args.tagsExclude, args.prune, args.fs)
    /\ pc' = "done"
    /\ UNCHANGED args

NextResolve == CallResolvePathuniPaths

SpecResolve == InitResolve /\ [][NextResolve]_vars

\* The statuses of the invocation in args.
StatusesOfArgs ==
    EvaluateConfigDetailed(args.cfg, args.platform, args.shell,
                           parseTagFlags(args.tagsInclude, args.tagsExclude).filter,
                           args.fs).pathStatuses

\* C10: the resolved config list holds exactly the Included entries under
\* prune pathuni or all, exactly the PassesFilter entries under none or
\* system, existing or not, in evaluation order, each path once at its
\* first occurrence.
C10_ResolveByPrune ==
    (pc = "done" /\ args.fn = "resolvePathuniPaths" /\ ret.err = Nil) =>
        LET sts == StatusesOfArgs
            kept == {i \in DOMAIN sts : IF args.prune \in {"pathuni", "all"}
                                        THEN sts[i].Included ELSE sts[i].PassesFilter}
            firstOf(p) == CHOOSE i \in kept : sts[i].Path = p /\ \A j \in kept :
                                                  sts[j].Path = p => i <= j
        IN  /\ {ret.out[k] : k \in DOMAIN ret.out} = {sts[i].Path : i \in kept}
            /\ \A k, l \in DOMAIN ret.out :
                   k < l => ret.out[k] # ret.out[l] /\ firstOf(ret.out[k]) < firstOf(ret.out[l])

\* C10 witness: with pruning off, a passing entry that is missing on disk
\* is in the list, and an entry repeating an earlier path was dropped.
C10_Witness ==
    /\ pc = "done"
    /\ args.fn = "resolvePathuniPaths"
    /\ ret.err = Nil
    /\ args.prune = "none"
    /\ \E i \in DOMAIN StatusesOfArgs :
           /\ ~StatusesOfArgs[i].Exists
           /\ StatusesOfArgs[i].PassesFilter
           /\ \E k \in DOMAIN ret.out : ret.out[k] = StatusesOfArgs[i].Path
    /\ Len(ret.out) >= 2
    /\ Len(ret.out) < Cardinality({i \in DOMAIN StatusesOfArgs : StatusesOfArgs[i].PassesFilter})

(***************************************************************************)
(* Reports: EvaluateConfigWithReasons, PrintDryRunReport and                *)
(* PrintEvaluationReport.  A report is its included lines and its skipped   *)
(* lines; a skipped line carries its icon, its path, whether it reads       *)
(* "(not found)" and the reason details printed under it.                   *)
(***************************************************************************)
SkippedPath(path, reasons) == [Path |-> path, Reasons |-> reasons]

\* processPlatformPaths: per entry of the section, the skipped path it
\* appends, or no reasons for an entry it appends to IncludedPaths.
processPlatformPaths(platformConfig, tagFilter, fs) ==
    LET outcome(expanded, err, skipReasons) ==
            IF IsNotExist(err)
            THEN SkippedPath(expanded, <<SkipReason("not_found", "not found")>>)
            ELSE SkippedPath(expanded, skipReasons)
        processed(extracted) ==
            [outcomes |-> [i \in DOMAIN extracted.result |->
                               outcome(ExpandEnv(extracted.result[i].Path),
                                       Stat(fs, ExpandEnv(extracted.result[i].Path)).err,
                                       getPathSkipReasons(
                                           GetEffectiveTags(extracted.result[i],
                                                            platformConfig.Tags),
                                           IsExplicitlyTagged(extracted.result[i]),
                                           tagFilter))],
             err |-> extracted.err]
    IN  processed(extractPathEntries(platformConfig.Paths))

EvaluateConfigWithReasons(cfg, platform, tagFilter, fs) ==
    LET failed(err) ==
            [IncludedPaths |-> <<>>, SkippedPaths |-> <<>>, TotalPaths |-> 0, err |-> err]
        result(outcomes) ==
            [IncludedPaths |-> pathsOf(SelectSeq(outcomes, LAMBDA o : o.Reasons = <<>>)),
             SkippedPaths |-> SelectSeq(outcomes, LAMBDA o : o.Reasons # <<>>),
             TotalPaths |-> Len(outcomes),
             err |-> Nil]
        evaluated(all, rest) ==
            IF all.err # Nil THEN failed(all.err)
            ELSE IF rest.err # Nil THEN failed(rest.err)
            ELSE result(all.outcomes \o rest.outcomes)
    IN  IF validateConfig(cfg) # Nil THEN failed("config validation error")
        ELSE evaluated(processPlatformPaths(cfg.All, tagFilter, fs),
                       IF platform \in {"macOS", "Linux"}
                       THEN processPlatformPaths(IF platform = "macOS" THEN cfg.MacOS
                                                 ELSE cfg.Linux, tagFilter, fs)
                       ELSE [outcomes |-> <<>>, err |-> Nil])

SkippedLine(icon, path, notFound, details) ==
    [icon |-> icon, path |-> path, notFound |-> notFound, details |-> details]

renderSkippedPath(skipped) ==
    IF Len(skipped.Reasons) = 1 /\ skipped.Reasons[1].Type = "not_found"
    THEN SkippedLine("!", skipped.Path, TRUE, <<>>)
    ELSE SkippedLine(IF Len(skipped.Reasons) > 0 /\ skipped.Reasons[1].Type = "not_found"
                     THEN "!" ELSE "-",
                     skipped.Path, FALSE,
                     [i \in DOMAIN skipped.Reasons |-> skipped.Reasons[i].Detail])

IncludedLine(marker, path) == [marker |-> marker, path |-> path]

Report(included, skipped, err) == [included |-> included, skipped |-> skipped, err |-> err]

\* The system side of a dry run: the PATH entries kept, and those dropped
\* as missing when the system side is pruned.
systemSide(pathEnv, prune, fs) ==
    LET pruned(original, filtered) ==
            [sys |-> filtered,
             skippedSys |-> SelectSeq(original,
                                      LAMBDA q : q \notin {filtered[i] : i \in DOMAIN filtered})]
        resolved(original) ==
            IF prune = "system" \/ prune = "all"
            THEN pruned(original, filterExisting(original, fs))
            ELSE [sys |-> original, skippedSys |-> <<>>]
    IN  resolved(resolveSystemPaths(pathEnv))

\* The config side of a dry run: Included statuses when the config side is
\* pruned, PassesFilter statuses otherwise.
pathuniSide(statuses, prune) ==
    IF prune = "pathuni" \/ prune = "all"
    THEN includedPaths(statuses)
    ELSE passingPaths(statuses)

\* The "full" scope's included block: config paths first, then system
\* paths, each path once.
RECURSIVE mergeSeen(_, _, _)
mergeSeen(entries, seen, included) ==
    IF entries = <<>> THEN included
    ELSE IF Head(entries).path \in seen THEN mergeSeen(Tail(entries), seen, included)
    ELSE mergeSeen(Tail(entries), seen \cup {Head(entries).path}, Append(included, Head(entries)))

PrintDryRunReport(cfg, platform, shell, scope, prune, includeFlag, excludeFlag, pathEnv, fs) ==
    LET lines(marker, paths) == [i \in DOMAIN paths |-> IncludedLine(marker, paths[i])]
        rendered(pathuniSkipped) ==
            [i \in DOMAIN pathuniSkipped |-> renderSkippedPath(pathuniSkipped[i])]
        missing(skippedSys) ==
            [i \in DOMAIN skippedSys |-> SkippedLine("?", skippedSys[i], TRUE, <<>>)]
        printed(tagFilter, eval, result, side, includedPU, pathuniSkipped) ==
            IF tagFilter.err # Nil THEN Report(<<>>, <<>>, tagFilter.err)
            ELSE CASE scope = "pathuni" ->
                          IF eval.err # Nil THEN Report(<<>>, <<>>, eval.err)
                          ELSE IF (prune = "pathuni" \/ prune = "all") /\ result.err # Nil
                          THEN Report(<<>>, <<>>, result.err)
                          ELSE Report(lines("+", includedPU), rendered(pathuniSkipped), Nil)
                   [] scope = "system" ->
                          Report(lines(".", side.sys), missing(side.skippedSys), Nil)
                   [] scope = "full" ->
                          IF eval.err # Nil THEN Report(<<>>, <<>>, eval.err)
                          ELSE IF result.err # Nil THEN Report(<<>>, <<>>, result.err)
                          ELSE Report(mergeSeen(lines("+", includedPU) \o lines(".", side.sys),
                                                {}, <<>>),
                                      rendered(pathuniSkipped) \o missing(side.skippedSys), Nil)
                   [] OTHER -> Report(<<>>, <<>>, "invalid scope")
        evaluated(tagFilter, eval, result) ==
            printed(tagFilter, eval, result, systemSide(pathEnv, prune, fs),
                    pathuniSide(eval.pathStatuses, prune),
                    IF prune = "pathuni" \/ prune = "all" THEN result.SkippedPaths ELSE <<>>)
    IN  evaluated(parseTagFlags(includeFlag, excludeFlag),
                  EvaluateConfigDetailed(cfg, platform, shell,
                                         parseTagFlags(includeFlag, excludeFlag).filter, fs),
                  EvaluateConfigWithReasons(cfg, platform,
                                            parseTagFlags(includeFlag, excludeFlag).filter, fs))

PrintEvaluationReport(cfg, platform, shell, includeFlag, excludeFlag, fs) ==
    LET lines(paths) == [i \in DOMAIN paths |-> IncludedLine("+", paths[i])]
        notFound(paths) == [i \in DOMAIN paths |-> SkippedLine("!", paths[i], TRUE, <<>>)]
        filteredByTags(paths) ==
            [i \in DOMAIN paths |-> SkippedLine("-", paths[i], FALSE, <<>>)]
        printed(tagFilter, eval) ==
            IF tagFilter.err # Nil THEN Report(<<>>, <<>>, tagFilter.err)
            ELSE IF eval.err # Nil THEN Report(<<>>, <<>>, eval.err)
            ELSE Report(lines(includedPaths(eval.pathStatuses)),
                        notFound(pathsOf(SelectSeq(eval.pathStatuses,
                                                   LAMBDA st : ~st.Included /\ ~st.Exists)))
                            \o filteredByTags(pathsOf(SelectSeq(eval.pathStatuses,
                                                   LAMBDA st : ~st.Included /\ st.Exists))),
                        Nil)
    IN  printed(parseTagFlags(includeFlag, excludeFlag),
                EvaluateConfigDetailed(cfg, platform, shell,
                                       parseTagFlags(includeFlag, excludeFlag).filter, fs))

(***************************************************************************)
(* Dry runs and evaluation reports over the configurations.                 *)
(***************************************************************************)
Scopes == {"pathuni", "system", "full"}

\* The PATH variable: /s, /a and /s again.
PathEnv == <<"/", "s", ":", "/", "a", ":", "/", "s">>

ReportFlagPairs ==
    { [include |-> <<>>, exclude |-> <<>>],
      [include |-> TagDev, exclude |-> <<>>],
      [include |-> <<"m", "*">>, exclude |-> <<"M", "A", "C">>] }

ReportConfigs == {c \in Configs : c.All.Tags = <<TagDev>>}

ReportContexts == {x \in Contexts : x.platform = "Linux" \/ x.shell = "powershell"}

InitReport ==
    /\ pc = "call"
    /\ args \in {[fn |-> "PrintDryRunReport", cfg |-> c, platform |-> x.platform,
                  shell |-> x.shell, scope |-> sc, prune |-> p, tagsInclude |-> f.include,
                  tagsExclude |-> f.exclude, pathEnv |-> PathEnv, fs |-> d] :
                     c \in ReportConfigs, x \in ReportContexts, sc \in Scopes, p \in Prunes,
                     f \in ReportFlagPairs, d \in FileSystems}
             \cup
             {[fn |-> "PrintEvaluationReport", cfg |-> c, platform |-> x.platform,
               shell |-> x.shell, scope |-> "pathuni", prune |-> "pathuni",
               tagsInclude |-> f.include, tagsExclude |-> f.exclude, pathEnv |-> PathEnv,
               fs |-> d] :
                     c \in ReportConfigs, x \in ReportContexts, f \in ReportFlagPairs,
                     d \in FileSystems}
    /\ ret = "none"

CallPrintDryRunReport ==
    /\ pc = "call"
    /\ args.fn = "PrintDryRunReport"
    /\ ret' = PrintDryRunReport(args.cfg, args.platform, args.shell, args.scope, args.prune,
                                args.tagsInclude, args.tagsExclude, args.pathEnv, args.fs)
    /\ pc' = "done"
    /\ UNCHANGED args

CallPrintEvaluationReport ==
    /\ pc = "call"
    /\ args.fn = "PrintEvaluationReport"
    /\ ret' = PrintEvaluationReport(args.cfg, args.platform, args.shell, args.tagsInclude,
                                    args.tagsExclude, args.fs)
    /\ pc' = "done"
    /\ UNCHANGED args

NextReport == CallPrintDryRunReport \/ CallPrintEvaluationReport

SpecReport == InitReport /\ [][NextReport]_vars

\* The skipped lines of the report in ret that name the entry's path.
SkippedLinesOf(e) ==
    {k \in DOMAIN ret.skipped : Clean(ret.skipped[k].path) = Clean(ExpandEnv(e.path))}

\* C4: existence precedes filter: in every report an entry whose resolved
\* path is not an existing directory is classified "not found", never
\* "filtered by tags", whatever the filter and the entry's tags.
C4_ExistencePrecedesFilter ==
    (pc = "done" /\ args.fn \in {"PrintDryRunReport", "PrintEvaluationReport"}
                 /\ ret.err = Nil) =>
        \A e \in {ConfiguredEntries(args.cfg, args.platform, args.shell)[i] :
                      i \in DOMAIN ConfiguredEntries(args.cfg, args.platform, args.shell)} :
            ~IsExistingDir(args.fs, e.path) =>
                \A k \in SkippedLinesOf(e) : ret.skipped[k].notFound

\* The evaluation report alone classifies every such entry "not found".
EvaluationReportExistenceFirst ==
    (pc = "done" /\ args.fn = "PrintEvaluationReport" /\ ret.err = Nil) =>
        \A e \in {ConfiguredEntries(args.cfg, args.platform, args.shell)[i] :
                      i \in DOMAIN ConfiguredEntries(args.cfg, args.platform, args.shell)} :
            ~IsExistingDir(args.fs, e.path) =>
                /\ SkippedLinesOf(e) # {}
                /\ \A k \in SkippedLinesOf(e) : ret.skipped[k].notFound

(***************************************************************************)
(* mergeFull: both lists deduplicated, concatenated in the order the flag   *)
(* asks for, and deduplicated again.                                        *)
(***************************************************************************)
\* A variant of mergeFull that concatenates without removing duplicates.
mergeFull_NoDedupe(pathuni, system, pathuniFirst) ==
    IF pathuniFirst THEN pathuni \o system ELSE system \o pathuni

\* A variant of mergeFull that puts the system entries first whatever the flag.
mergeFull_SystemFirst(pathuni, system, pathuniFirst) ==
    dedupePreserveOrder(dedupePreserveOrder(system) \o dedupePreserveOrder(pathuni))

mergeFull(pathuni, system, pathuniFirst) ==
    LET combined(p, s) == dedupePreserveOrder(IF pathuniFirst THEN p \o s ELSE s \o p)
    IN  combined(dedupePreserveOrder(pathuni), dedupePreserveOrder(system))

MergePool == {PathA, PathM, PathS}

MaxMergeLen == 3

InitMerge ==
    /\ pc = "call"
    /\ args \in {[fn |-> "mergeFull", pathuni |-> p, system |-> s, pathuniFirst |-> f] :
                     p \in SeqsBetween(MergePool, 0, MaxMergeLen),
                     s \in SeqsBetween(MergePool, 0, MaxMergeLen), f \in BOOLEAN}
    /\ ret = "none"

CallMergeFull ==
    /\ pc = "call"
    /\ args.fn = "mergeFull"
    /\ ret' = mergeFull(args.pathuni, args.system, args.pathuniFirst)
    /\ pc' = "done"
    /\ UNCHANGED args

NextMerge == CallMergeFull

SpecMerge == InitMerge /\ [][NextMerge]_vars

\* The strings of a list.
Members(list) == {list[i] : i \in DOMAIN list}

\* The index of the first occurrence of x in a list that holds it.
FirstIndex(list, x) ==
    CHOOSE i \in DOMAIN list : list[i] = x /\ \A j \in 1..(i - 1) : list[j] # x

\* In list r every member of the list first precedes every other string.
Precedes(r, first) ==
    \A i, j \in DOMAIN r : (r[i] \in Members(first) /\ r[j] \notin Members(first)) => i < j

\* Two members of src stand in r in the order of their first occurrence in src.
KeepsOrderOf(r, src, among) ==
    \A i, j \in DOMAIN r :
        (r[i] \in among /\ r[j] \in among /\ i < j) => FirstIndex(src, r[i]) < FirstIndex(src, r[j])

\* C11: mergeFull(config, env, true) holds every string of either list
\* exactly once, the strings of config before the strings found only in env,
\* each group in the order of first occurrence in its list.
C11_MergeConfigFirst ==
    (pc = "done" /\ args.fn = "mergeFull" /\ args.pathuniFirst) =>
        /\ Members(ret) = Members(args.pathuni) \cup Members(args.system)
        /\ \A i, j \in DOMAIN ret : i # j => ret[i] # ret[j]
        /\ Precedes(ret, args.pathuni)
        /\ KeepsOrderOf(ret, args.pathuni, Members(args.pathuni))
        /\ KeepsOrderOf(ret, args.system, Members(args.system) \ Members(args.pathuni))

\* A merge of a config list with a repeated string and an env list that
\* shares a string with it and adds two of its own.
C11_Witness ==
    /\ pc = "done"
    /\ args.fn = "mergeFull"
    /\ args.pathuniFirst
    /\ args.pathuni = <<PathA, PathA>>
    /\ args.system = <<PathS, PathA, PathM>>
    /\ ret = <<PathA, PathS, PathM>>

(***************************************************************************)
(* Nested merges of three lists, config first.                              *)
(***************************************************************************)
MaxNestedLen == 2

InitNested ==
    /\ pc = "call"
    /\ args \in {[fn |-> "mergeFull", A |-> a, B |-> b, C |-> c] :
                     a \in SeqsBetween(MergePool, 0, MaxNestedLen),
                     b \in SeqsBetween(MergePool, 0, MaxNestedLen),
                     c \in SeqsBetween(MergePool, 0, MaxNestedLen)}
    /\ ret = "none"

CallMergeNested ==
    /\ pc = "call"
    /\ args.fn = "mergeFull"
    /\ ret' = [left |-> mergeFull(mergeFull(args.A, args.B, TRUE), args.C, TRUE),
               right |-> mergeFull(args.A, mergeFull(args.B, args.C, TRUE), TRUE)]
    /\ pc' = "done"
    /\ UNCHANGED args

NextNested == CallMergeNested

SpecNested == InitNested /\ [][NextNested]_vars

\* C12: Merge(Merge(A,B,true),C,true) and Merge(A,Merge(B,C,true),true)
\* hold the same set of strings, and in both every string of A precedes
\* every string that is not in A.
C12_NestedMergeSameSet ==
    (pc = "done" /\ args.fn = "mergeFull") =>
        /\ Members(ret.left) = Members(ret.right)
        /\ Precedes(ret.left, args.A)
        /\ Precedes(ret.right, args.A)

\* Three lists that overlap pairwise, A's string standing last in B and C.
C12_Witness ==
    /\ pc = "done"
    /\ args.fn = "mergeFull"
    /\ args.A = <<PathA>>
    /\ args.B = <<PathM, PathA>>
    /\ args.C = <<PathS, PathM>>
    /\ ret.left = <<PathA, PathM, PathS>>
    /\ ret.right = <<PathA, PathM, PathS>>

(***************************************************************************)
(* Commands: the checks of runInit, runDump and runDryRun on their flags,   *)
(* the renderers of init and the formatter of dump.                         *)
(***************************************************************************)
osIsValid(osName) == osName \in {"macOS", "Linux"}

supportedShells ==
    {"bash", "zsh", "sh", "dash", "ash", "ksh", "mksh", "yash", "fish", "powershell"}

shellIsValid(shellName) == shellName \in supportedShells

isValidFormat(format) == format \in {"plain", "json", "yaml"}

isValidScope(scope) == scope \in {"system", "pathuni", "full"}

isValidPrune(p) == p \in {"none", "pathuni", "system", "all"}

renderBash(paths) == <<"e", "x", "p", "o", "r", "t", " ", "P", "A", "T", "H", "=", "\"">> \o Join(paths, <<":">>) \o <<"\"">>

renderFish(paths) == <<"s", "e", "t", " ", "-", "g", "x", " ", "P", "A", "T", "H", " ">> \o Join(paths, <<" ">>)

renderPwsh(paths) == <<"$", "e", "n", "v", ":", "P", "A", "T", "H", " ", "=", " ", "\"">> \o Join(paths, <<":">>) \o <<"\"">>

renderBashDefer(paths) ==
    IF Join(paths, <<":">>) = <<>> THEN <<"e", "x", "p", "o", "r", "t", " ", "P", "A", "T", "H", "=", "\"">> \o <<"$", "{", "P", "A", "T", "H", "}">> \o <<"\"">>
    ELSE <<"e", "x", "p", "o", "r", "t", " ", "P", "A", "T", "H", "=", "\"">> \o Join(paths, <<":">>) \o <<":">> \o <<"$", "{", "P", "A", "T", "H", "}">> \o <<"\"">>

renderFishDefer(paths) ==
    IF Join(paths, <<" ">>) = <<>> THEN <<"s", "e", "t", " ", "-", "g", "x", " ", "P", "A", "T", "H", " ">> \o <<"$", "P", "A", "T", "H">>
    ELSE <<"s", "e", "t", " ", "-", "g", "x", " ", "P", "A", "T", "H", " ">> \o Join(paths, <<" ">>) \o <<" ">> \o <<"$", "P", "A", "T", "H">>

renderPwshDefer(paths) ==
    IF Join(paths, <<":">>) = <<>> THEN <<"$", "e", "n", "v", ":", "P", "A", "T", "H", " ", "=", " ", "\"">> \o <<"$", "e", "n", "v", ":", "P", "A", "T", "H">> \o <<"\"">>
    ELSE <<"$", "e", "n", "v", ":", "P", "A", "T", "H", " ", "=", " ", "\"">> \o Join(paths, <<":">>) \o <<":">> \o <<"$", "e", "n", "v", ":", "P", "A", "T", "H">> \o <<"\"">>

\* renderers[shellName](paths), for a supported shell.
renderers(shellName, paths) ==
    CASE shellName = "fish" -> renderFish(paths)
      [] shellName = "powershell" -> renderPwsh(paths)
      [] OTHER -> renderBash(paths)

\* renderersDefer[shellName](paths), for a supported shell.
renderersDefer(shellName, paths) ==
    CASE shellName = "fish" -> renderFishDefer(paths)
      [] shellName = "powershell" -> renderPwshDefer(paths)
      [] OTHER -> renderBashDefer(paths)

\* formatPaths for the plain format; the json and yaml encoders are not
\* part of this model and the runs below ask for plain.
formatPaths(paths, format) ==
    IF format = "plain" THEN [out |-> Join(paths, <<"\n">>) \o <<"\n">>, err |-> Nil]
    ELSE [out |-> <<>>, err |-> "unsupported format"]

getAllPathsWithTagFiltering(cfg, platform, shell, includeFlag, excludeFlag, prune, pathEnv, fs) ==
    LET merged(systemPaths, pathuni) ==
            IF pathuni.err # Nil THEN [out |-> <<>>, err |-> pathuni.err]
            ELSE [out |-> mergeFull(pathuni.out,
                                    IF prune = "system" \/ prune = "all"
                                    THEN filterExisting(systemPaths, fs) ELSE systemPaths,
                                    TRUE),
                  err |-> Nil]
    IN  merged(resolveSystemPaths(pathEnv),
               resolvePathuniPaths(cfg, platform, shell, includeFlag, excludeFlag, prune, fs))

(***************************************************************************)
(* The names handed to os.Stat, in call order, by each evaluation.          *)
(***************************************************************************)
statsOfFilterExisting(paths) == [i \in DOMAIN paths |-> ExpandEnv(paths[i])]

statsOfEvaluateConfigDetailed(cfg, platform, shell) ==
    LET resolvedOf(paths) == [i \in DOMAIN paths |-> Clean(ExpandEnv(paths[i]))]
        ofPlatform(section, extracted) ==
            IF extracted.err # Nil THEN <<>>
            ELSE resolvedOf(pathsOf(extracted.result))
                     \o resolvedOf(getShellSpecificPaths(shell, section))
                     \o (IF shell # "powershell" \/ section.PowerShell.nil
                             \/ ~section.PowerShell.IncludeSystemPaths
                         THEN <<>> ELSE statsOfFilterExisting(getSystemPaths))
        ofAll(all, section) ==
            IF all.err # Nil THEN <<>>
            ELSE resolvedOf(pathsOf(all.result))
                     \o (IF platform \in {"Linux", "macOS"}
                         THEN ofPlatform(section, extractPathEntries(section.Paths)) ELSE <<>>)
    IN  IF validateConfig(cfg) # Nil THEN <<>>
        ELSE ofAll(extractPathEntries(cfg.All.Paths),
                   IF platform = "Linux" THEN cfg.Linux ELSE cfg.MacOS)

statsOfEvaluateConfigWithReasons(cfg, platform) ==
    LET ofSection(extracted) ==
            IF extracted.err # Nil THEN <<>>
            ELSE statsOfFilterExisting(pathsOf(extracted.result))
        ofAll(all, section) ==
            IF all.err # Nil THEN <<>>
            ELSE ofSection(all)
                     \o (IF platform \in {"Linux", "macOS"}
                         THEN ofSection(extractPathEntries(section.Paths)) ELSE <<>>)
    IN  IF validateConfig(cfg) # Nil THEN <<>>
        ELSE ofAll(extractPathEntries(cfg.All.Paths),
                   IF platform = "Linux" THEN cfg.Linux ELSE cfg.MacOS)

(***************************************************************************)
(* runInit, runDump and runDryRun as processes.  ret is what the command    *)
(* has done so far: the system side it resolved, the final path list, the   *)
(* names it handed to os.Stat, what it printed and the error it exits on.   *)
(***************************************************************************)
Started ==
    [sys |-> <<>>, paths |-> <<>>, stats |-> <<>>, out |-> <<>>,
     report |-> Report(<<>>, <<>>, Nil), err |-> Nil]

\* initFlagError without the check of --prune against --defer-env.
initFlagError_DeferAnyPrune(osName, shellName, scope, prune, deferEnv) ==
    IF ~osIsValid(osName) THEN "unsupported OS"
    ELSE IF ~shellIsValid(shellName) THEN "unsupported shell"
    ELSE IF ~isValidScope(scope) THEN "invalid scope option"
    ELSE IF ~isValidPrune(prune) THEN "invalid prune option"
    ELSE IF deferEnv /\ scope # "full" THEN "--defer-env is only valid with --scope=full"
    ELSE Nil

\* The flag checks at the head of runInit, in order; Nil when all pass.
initFlagError(osName, shellName, scope, prune, deferEnv) ==
    IF ~osIsValid(osName) THEN "unsupported OS"
    ELSE IF ~shellIsValid(shellName) THEN "unsupported shell"
    ELSE IF ~isValidScope(scope) THEN "invalid scope option"
    ELSE IF ~isValidPrune(prune) THEN "invalid prune option"
    ELSE IF deferEnv /\ scope # "full" THEN "--defer-env is only valid with --scope=full"
    ELSE IF deferEnv /\ (prune = "system" \/ prune = "all")
    THEN "--prune is incompatible with --defer-env"
    ELSE Nil

\* runInit up to the choice of what to resolve.
RunInitCheckFlags ==
    /\ pc = "start"
    /\ args.cmd = "init"
    /\ LET checked(err) ==
               /\ ret' = [ret EXCEPT !.err = err]
               /\ pc' = IF err # Nil THEN "exit"
                        ELSE IF args.deferEnv \/ args.scope = "pathuni" THEN "pathuni"
                        ELSE "system"
       IN  checked(initFlagError(args.platform, args.shell, args.scope, args.prune,
                                 args.deferEnv))
    /\ UNCHANGED args

\* The system side of scopes system and full: resolveSystemPaths, then
\* filterExisting when the system side is pruned.
RunInitSystem ==
    /\ pc = "system"
    /\ args.cmd = "init"
    /\ LET resolved(p) ==
               IF args.prune = "system" \/ args.prune = "all"
               THEN [ret EXCEPT !.sys = filterExisting(p, args.fs),
                                !.paths = filterExisting(p, args.fs),
                                !.stats = ret.stats \o statsOfFilterExisting(p)]
               ELSE [ret EXCEPT !.sys = p, !.paths = p]
       IN  ret' = resolved(resolveSystemPaths(args.pathEnv))
    /\ pc' = IF args.scope = "system" THEN "render" ELSE "pathuni"
    /\ UNCHANGED args

\* resolvePathuniPaths for scopes pathuni and full and for --defer-env,
\* followed by mergeFull in scope full.
RunInitPathuni ==
    /\ pc = "pathuni"
    /\ args.cmd = "init"
    /\ LET resolved(tagFilter, pu) ==
               /\ ret' = [ret EXCEPT
                              !.err = pu.err,
                              !.stats = IF tagFilter.err # Nil THEN ret.stats
                                        ELSE ret.stats \o statsOfEvaluateConfigDetailed(
                                                              args.cfg, args.platform, args.shell),
                              !.paths = IF pu.err # Nil THEN <<>>
                                        ELSE IF args.deferEnv \/ args.scope = "pathuni"
                                        THEN pu.out
                                        ELSE mergeFull(pu.out, ret.sys, TRUE)]
               /\ pc' = IF pu.err # Nil THEN "exit" ELSE "render"
       IN  resolved(parseTagFlags(args.tagsInclude, args.tagsExclude),
                    resolvePathuniPaths(args.cfg, args.platform, args.shell, args.tagsInclude,
                                        args.tagsExclude, args.prune, args.fs))
    /\ UNCHANGED args

\* The line runInit prints.
RunInitRender ==
    /\ pc = "render"
    /\ args.cmd = "init"
    /\ ret' = [ret EXCEPT !.out = IF args.deferEnv THEN renderersDefer(args.shell, ret.paths)
                                  ELSE renderers(args.shell, ret.paths)]
    /\ pc' = "exit"
    /\ UNCHANGED args

\* The flag checks at the head of runDump.
RunDumpCheckFlags ==
    /\ pc = "start"
    /\ args.cmd = "dump"
    /\ LET checked(err) ==
               /\ ret' = [ret EXCEPT !.err = err]
               /\ pc' = IF err # Nil THEN "exit" ELSE "resolve"
       IN  checked(IF ~isValidFormat(args.format) THEN "unsupported format"
                   ELSE IF ~isValidScope(args.scope) THEN "invalid scope option"
                   ELSE IF ~isValidPrune(args.prune) THEN "invalid prune option"
                   ELSE Nil)
    /\ UNCHANGED args

\* The scope switch of runDump; in scope full the system side is filtered
\* after resolvePathuniPaths has returned without an error.
RunDumpResolve ==
    /\ pc = "resolve"
    /\ args.cmd = "dump"
    /\ LET pruneSys == args.prune = "system" \/ args.prune = "all"
           resolved(r, stats) ==
               /\ ret' = [ret EXCEPT !.err = r.err, !.paths = r.out,
                                     !.stats = ret.stats \o stats]
               /\ pc' = IF r.err # Nil THEN "exit" ELSE "format"
           ofSystem(p) ==
               resolved([out |-> IF pruneSys THEN filterExisting(p, args.fs) ELSE p,
                         err |-> Nil],
                        IF pruneSys THEN statsOfFilterExisting(p) ELSE <<>>)
           ofPathuni(tagFilter, r) ==
               resolved(r,
                        (IF tagFilter.err # Nil THEN <<>>
                         ELSE statsOfEvaluateConfigDetailed(args.cfg, args.platform, args.shell))
                            \o (IF args.scope = "full" /\ r.err = Nil /\ pruneSys
                                THEN statsOfFilterExisting(resolveSystemPaths(args.pathEnv))
                                ELSE <<>>))
       IN  CASE args.scope = "system" -> ofSystem(resolveSystemPaths(args.pathEnv))
             [] args.scope = "pathuni" ->
                    ofPathuni(parseTagFlags(args.tagsInclude, args.tagsExclude),
                              resolvePathuniPaths(args.cfg, args.platform, args.shell,
                                                  args.tagsInclude, args.tagsExclude,
                                                  args.prune, args.fs))
             [] OTHER ->
                    ofPathuni(parseTagFlags(args.tagsInclude, args.tagsExclude),
                              getAllPathsWithTagFiltering(args.cfg, args.platform, args.shell,
                                                          args.tagsInclude, args.tagsExclude,
                                                          args.prune, args.pathEnv, args.fs))
    /\ UNCHANGED args

\* formatPaths and the print of runDump.
RunDumpFormat ==
    /\ pc = "format"
    /\ args.cmd = "dump"
    /\ LET formatted(f) == ret' = [ret EXCEPT !.out = f.out, !.err = f.err]
       IN  formatted(formatPaths(ret.paths, args.format))
    /\ pc' = "exit"
    /\ UNCHANGED args

\* The names PrintDryRunReport hands to os.Stat, in call order.
statsOfPrintDryRunReport(cfg, platform, shell, scope, prune, tagFilter, eval, result, pathEnv) ==
    LET ofSystem == IF prune = "system" \/ prune = "all"
                    THEN statsOfFilterExisting(resolveSystemPaths(pathEnv)) ELSE <<>>
        ofReasons == statsOfEvaluateConfigWithReasons(cfg, platform)
    IN  IF tagFilter.err # Nil THEN <<>>
        ELSE CASE scope = "pathuni" ->
                      statsOfEvaluateConfigDetailed(cfg, platform, shell)
                          \o (IF eval.err = Nil /\ (prune = "pathuni" \/ prune = "all")
                              THEN ofReasons ELSE <<>>)
               [] scope = "system" -> ofSystem
               [] scope = "full" ->
                      statsOfEvaluateConfigDetailed(cfg, platform, shell)
                          \o (IF eval.err = Nil THEN ofReasons ELSE <<>>)
                          \o (IF eval.err = Nil /\ result.err = Nil THEN ofSystem ELSE <<>>)
               [] OTHER -> <<>>

\* runDryRun: the platform and shell checks, then PrintDryRunReport.
RunDryRun ==
    /\ pc = "start"
    /\ args.cmd = "dry-run"
    /\ LET printed(report, stats) ==
               ret' = [ret EXCEPT !.report = report, !.err = report.err, !.stats = stats]
       IN  IF ~osIsValid(args.platform) THEN ret' = [ret EXCEPT !.err = "unsupported OS"]
           ELSE IF ~shellIsValid(args.shell) THEN ret' = [ret EXCEPT !.err = "unsupported shell"]
           ELSE printed(PrintDryRunReport(args.cfg, args.platform, args.shell, args.scope,
                                          args.prune, args.tagsInclude, args.tagsExclude,
                                          args.pathEnv, args.fs),
                        statsOfPrintDryRunReport(
                            args.cfg, args.platform, args.shell, args.scope, args.prune,
                            parseTagFlags(args.tagsInclude, args.tagsExclude),
                            EvaluateConfigDetailed(
                                args.cfg, args.platform, args.shell,
                                parseTagFlags(args.tagsInclude, args.tagsExclude).filter,
                                args.fs),
                            EvaluateConfigWithReasons(
                                args.cfg, args.platform,
                                parseTagFlags(args.tagsInclude, args.tagsExclude).filter,
                                args.fs),
                            args.pathEnv))
    /\ pc' = "exit"
    /\ UNCHANGED args

(***************************************************************************)
(* Invocations: each command under every scope and prune value, a value     *)
(* outside the accepted ones included, with well-formed and malformed       *)
(* filter flags.                                                            *)
(***************************************************************************)
CommandConfigs ==
    {c \in Configs :
         /\ c.All.Tags = <<>>
         /\ c.All.Paths \in {<<>>, <<MapItem(PathH)>>, <<StringItem(PathA)>>}}

CommandContexts ==
    { [platform |-> "Linux", shell |-> "bash"],
      [platform |-> "Linux", shell |-> "fish"],
      [platform |-> "macOS", shell |-> "powershell"],
      [platform |-> "", shell |-> "bash"],
      [platform |-> "Linux", shell |-> "tcsh"] }

ScopeFlags == Scopes \cup {"bogus"}

PruneFlags == Prunes \cup {"bogus"}

CommandFlagPairs ==
    { [include |-> <<>>, exclude |-> <<>>],
      [include |-> TagDev, exclude |-> <<>>],
      [include |-> <<"d", "e", "v", "+">>, exclude |-> <<>>] }

\* PATH values: unset, a repeated entry, an entry that names the variable
\* H beside the directory H stands for, and one that names H alone.
PathEnvs ==
    { <<>>,
      <<"/", "s", ":", "/", "h", ":", "/", "s">>,
      <<"/", "h", ":", "$", "H", ":", "/", "a">>,
      <<"$", "H", ":", "/", "s">> }

CommandFileSystems == {d \in FileSystems : d[PathA] # "file"}

Invocations(cmds) ==
    {[cmd |-> c, deferEnv |-> de, format |-> "plain", cfg |-> g,
      platform |-> x.platform, shell |-> x.shell, scope |-> sc, prune |-> p,
      tagsInclude |-> f.include, tagsExclude |-> f.exclude, pathEnv |-> e, fs |-> d] :
         c \in cmds, de \in BOOLEAN, g \in CommandConfigs,
         x \in CommandContexts, sc \in ScopeFlags, p \in PruneFlags,
         f \in CommandFlagPairs, e \in PathEnvs, d \in CommandFileSystems}

\* pathuni init and pathuni dump.
InitCommand ==
    /\ pc = "start"
    /\ args \in Invocations({"init", "dump"})
    /\ args.deferEnv => args.cmd = "init"
    /\ ret = Started

NextCommand ==
    \/ RunInitCheckFlags
    \/ RunInitSystem
    \/ RunInitPathuni
    \/ RunInitRender
    \/ RunDumpCheckFlags
    \/ RunDumpResolve
    \/ RunDumpFormat

SpecCommand == InitCommand /\ [][NextCommand]_vars

\* pathuni dry-run.
InitDryRun ==
    /\ pc = "start"
    /\ args \in Invocations({"dry-run"})
    /\ ~args.deferEnv
    /\ ret = Started

NextDryRun == RunDryRun

SpecDryRun == InitDryRun /\ [][NextDryRun]_vars

(***************************************************************************)
(* C13: scope full.                                                         *)
(***************************************************************************)
\* The statuses of the configuration entries of an invocation.
StatusesOf(a) ==
    EvaluateConfigDetailed(a.cfg, a.platform, a.shell,
                           parseTagFlags(a.tagsInclude, a.tagsExclude).filter,
                           a.fs).pathStatuses

\* The config side: the entries that pass the filter, the missing ones
\* dropped iff prune is pathuni or all, each once.
ConfigSide(a) ==
    dedupePreserveOrder(pathsOf(SelectSeq(StatusesOf(a),
        LAMBDA st : st.PassesFilter /\ (a.prune \in {"pathuni", "all"} => st.Exists))))

\* The environment side: the entries of PATH, each once, those that are not
\* existing directories dropped iff prune is system or all; an entry is
\* judged as written, or by what it expands to.
EnvSideAsWritten(a) ==
    IF a.prune \in {"system", "all"}
    THEN SelectSeq(resolveSystemPaths(a.pathEnv), LAMBDA p : IsExistingDir(a.fs, p))
    ELSE resolveSystemPaths(a.pathEnv)

EnvSideExpanded(a) ==
    IF a.prune \in {"system", "all"}
    THEN SelectSeq(resolveSystemPaths(a.pathEnv), LAMBDA p : IsExistingDir(a.fs, ExpandEnv(p)))
    ELSE resolveSystemPaths(a.pathEnv)

\* An init or dump run in scope full has resolved its final list.
ResolvedFull ==
    /\ args.scope = "full"
    /\ ~args.deferEnv
    /\ \/ args.cmd = "init" /\ pc = "render"
       \/ args.cmd = "dump" /\ pc = "format"

\* C13: in scope full the final list is the config-first merge of the
\* config side, pruned iff prune is pathuni or all, and the environment
\* side, pruned iff prune is system or all.
C13_MergedScopeDispatch ==
    ResolvedFull =>
        \/ ret.paths = mergeFull(ConfigSide(args), EnvSideAsWritten(args), TRUE)
        \/ ret.paths = mergeFull(ConfigSide(args), EnvSideExpanded(args), TRUE)

\* The same with PATH entries that hold no variable reference.
C13_MergedScopeDispatch_PlainPath ==
    (ResolvedFull /\ "$" \notin Members(args.pathEnv)) =>
        ret.paths = mergeFull(ConfigSide(args), EnvSideAsWritten(args), TRUE)

(***************************************************************************)
(* C14: the final list.                                                     *)
(***************************************************************************)
\* The list a command hands to its renderer or formatter.
HandsOverList ==
    \/ args.cmd = "init" /\ pc = "render"
    \/ args.cmd = "dump" /\ pc = "format"

\* C14: for every scope, prune policy, configuration and PATH value the
\* final list handed to the renderer (init) or the formatter (dump) holds
\* no string more than once.
C14_FinalListHasNoDuplicate ==
    HandsOverList =>
        \A i, j \in DOMAIN ret.paths : ret.paths[i] = ret.paths[j] => i = j

\* The same for the runs that do not prune the entries of PATH alone.
C14_NoDuplicateUnlessSystemPruned ==
    (HandsOverList /\ ~(args.scope = "system" /\ args.prune \in {"system", "all"})) =>
        \A i, j \in DOMAIN ret.paths : ret.paths[i] = ret.paths[j] => i = j

(***************************************************************************)
(* C15: init --defer-env.                                                   *)
(***************************************************************************)
\* How each shell's line names the PATH variable of the running shell.
PathReference(shellName) ==
    CASE shellName = "fish" -> <<"$", "P", "A", "T", "H">>
      [] shellName = "powershell" -> <<"$", "e", "n", "v", ":", "P", "A", "T", "H">>
      [] OTHER -> <<"$", "{", "P", "A", "T", "H", "}">>

\* The line of a shell around a list of entries.
LineAround(shellName, entries) ==
    CASE shellName = "fish" ->
             <<"s", "e", "t", " ", "-", "g", "x", " ", "P", "A", "T", "H", " ">>
                 \o Join(entries, <<" ">>)
      [] shellName = "powershell" ->
             <<"$", "e", "n", "v", ":", "P", "A", "T", "H", " ", "=", " ", "\"">>
                 \o Join(entries, <<":">>) \o <<"\"">>
      [] OTHER ->
             <<"e", "x", "p", "o", "r", "t", " ", "P", "A", "T", "H", "=", "\"">>
                 \o Join(entries, <<":">>) \o <<"\"">>

\* C15: init --defer-env ends in an error without output unless scope is
\* full and prune is neither system nor all; a run that is accepted prints
\* the config side followed by the shell's reference to PATH, whatever the
\* value of PATH is.
C15_DeferMode ==
    (args.cmd = "init" /\ args.deferEnv /\ pc = "exit") =>
        /\ ~(args.scope = "full" /\ args.prune \notin {"system", "all"})
               => (ret.err # Nil /\ ret.out = <<>>)
        /\ ret.err = Nil
               => ret.out = LineAround(args.shell,
                                       ConfigSide(args) \o <<PathReference(args.shell)>>)
        /\ ret.err # Nil => ret.out = <<>>

\* An accepted run with config paths, one of them an entry of PATH too.
C15_Witness ==
    /\ args.cmd = "init" /\ args.deferEnv /\ pc = "exit"
    /\ args.shell = "fish" /\ args.prune = "pathuni"
    /\ args.pathEnv = <<"/", "s", ":", "/", "h", ":", "/", "s">>
    /\ ConfigSide(args) = <<PathHome>>
    /\ ret.err = Nil
    /\ ret.out = <<"s", "e", "t", " ", "-", "g", "x", " ", "P", "A", "T", "H", " ",
                   "/", "h", " ", "$", "P", "A", "T", "H">>

(***************************************************************************)
(* C16: scope and prune values outside the accepted ones.                   *)
(***************************************************************************)
InvalidSelection == ~isValidScope(args.scope) \/ ~isValidPrune(args.prune)

\* Nothing has been evaluated and nothing has been printed.
NothingDone ==
    /\ ret.stats = <<>>
    /\ ret.paths = <<>>
    /\ ret.out = <<>>
    /\ ret.report.included = <<>>
    /\ ret.report.skipped = <<>>

\* C16: a scope outside system, pathuni, full or a prune outside none,
\* pathuni, system, all makes the command end in an error with no
\* configuration or PATH entry evaluated and no report or path output.
C16_InvalidSelectionIsFatal ==
    InvalidSelection => (NothingDone /\ (pc = "exit" => ret.err # Nil))

\* The same for a scope outside the accepted ones alone.
C16_InvalidScopeIsFatal ==
    ~isValidScope(args.scope) => (NothingDone /\ (pc = "exit" => ret.err # Nil))

(***************************************************************************)
(* C17: malformed filter expressions.                                       *)
(***************************************************************************)
MalformedFilter == parseTagFlags(args.tagsInclude, args.tagsExclude).err # Nil

\* C17: with a malformed include or exclude expression the command ends
\* in an error, and no configuration entry or PATH entry is passed to
\* os.Stat or printed.
C17_MalformedFilterIsFatal ==
    MalformedFilter =>
        /\ ret.stats = <<>>
        /\ ret.out = <<>>
        /\ ret.report.included = <<>> /\ ret.report.skipped = <<>>
        /\ pc = "exit" => ret.err # Nil

\* The same for the runs that read the filter before the entries of PATH.
C17_MalformedFilterIsFatal_FilterFirst ==
    (/\ MalformedFilter
     /\ args.scope # "system"
     /\ ~(args.cmd = "init" /\ args.scope = "full" /\ args.prune \in {"system", "all"})) =>
        /\ ret.stats = <<>>
        /\ ret.out = <<>>
        /\ ret.report.included = <<>> /\ ret.report.skipped = <<>>
        /\ pc = "exit" => ret.err # Nil

\* The order alone: a run that exits on the malformed filter has passed
\* nothing to os.Stat before.
C17_NoStatBeforeFilterError ==
    (MalformedFilter /\ pc = "exit" /\ ret.err # Nil) => ret.stats = <<>>

(***************************************************************************)
(* C18: EvaluateConfigDetailed on configurations whose sections hold        *)
(* malformed items and malformed tag lists.                                 *)
(***************************************************************************)
\* Items of a paths list: well-formed ones, a map without a path, a tag
\* list with a non-string, with an invalid tag, with a repeated tag.
SectionItems ==
    { StringItem(PathA),
      TaggedItem(PathH, <<TagMac>>),
      [type |-> "map", hasPath |-> FALSE, path |-> <<>>,
       hasTags |-> FALSE, tagsIsSlice |-> FALSE, tags |-> <<>>],
      [type |-> "map", hasPath |-> TRUE, path |-> PathA, hasTags |-> TRUE, tagsIsSlice |-> TRUE,
       tags |-> <<[isString |-> FALSE, s |-> <<"7">>]>>],
      TaggedItem(PathA, <<<<"x">>>>),
      TaggedItem(PathA, <<TagMac, <<"M", "A", "C">> >>) }

SectionTagLists == { <<>>, <<TagDev>>, <<<<"x">>>>, <<TagDev, <<"D", "E", "V">> >> }

\* Sections with no item or one item.
AnySections ==
    {[Tags |-> t, Paths |-> l, PowerShell |-> NoShellConfig] :
         t \in SectionTagLists, l \in {<<>>} \cup {<<item>> : item \in SectionItems}}

InitAnyConfig ==
    /\ pc = "call"
    /\ args \in {[cfg |-> [All |-> a, Linux |-> l, MacOS |-> m], platform |-> x,
                  shell |-> "bash", tagFilter |-> [Include |-> <<>>, Exclude |-> <<>>],
                  fs |-> d] :
                     a \in AnySections, l \in AnySections, m \in AnySections,
                     x \in {"Linux", "macOS"},
                     d \in {d \in FileSystems : d[PathA] = "dir" /\ d[PathHome] = "dir"}}
    /\ ret = "none"

EvaluateAnyConfig ==
    /\ pc = "call"
    /\ ret' = EvaluateConfigDetailed(args.cfg, args.platform, args.shell, args.tagFilter,
                                     args.fs)
    /\ pc' = "done"
    /\ UNCHANGED args

NextAnyConfig == EvaluateAnyConfig

SpecAnyConfig == InitAnyConfig /\ [][NextAnyConfig]_vars

\* A tag list with an invalid tag or with two tags equal ignoring case.
TagListMalformed(tags) ==
    \/ \E k \in DOMAIN tags : validateTag(tags[k]) # Nil
    \/ \E i, j \in DOMAIN tags : i # j /\ ToLower(tags[i]) = ToLower(tags[j])

\* A path-entry object without a path field, or whose tag list holds a
\* non-string element, an invalid tag or a repeated tag.
ItemMalformed(item) ==
    /\ item.type = "map"
    /\ \/ ~item.hasPath
       \/ /\ item.hasTags /\ item.tagsIsSlice
          /\ \/ \E k \in DOMAIN item.tags : ~item.tags[k].isString
             \/ TagListMalformed([k \in DOMAIN item.tags |-> item.tags[k].s])

SectionMalformed(section) ==
    \/ TagListMalformed(section.Tags)
    \/ \E i \in DOMAIN section.Paths : ItemMalformed(section.Paths[i])

\* C18: evaluation returns an error and no path status whenever the
\* configuration holds, in any section, a path-entry object without a
\* path, a tag list with a non-string element, an invalid tag, or two tags
\* equal ignoring case in one entry's or one section's tag list.
C18_MalformedConfigIsFatal ==
    (/\ pc = "done"
     /\ \/ SectionMalformed(args.cfg.All)
        \/ SectionMalformed(args.cfg.Linux)
        \/ SectionMalformed(args.cfg.MacOS)) =>
        (ret.err # Nil /\ ret.pathStatuses = <<>>)

\* The same for the tag lists of the three sections and the items of the
\* all section and of the section of the platform in use.
C18_MalformedConfigIsFatal_SectionsRead ==
    (/\ pc = "done"
     /\ \/ TagListMalformed(args.cfg.All.Tags)
        \/ TagListMalformed(args.cfg.Linux.Tags)
        \/ TagListMalformed(args.cfg.MacOS.Tags)
        \/ SectionMalformed(args.cfg.All)
        \/ SectionMalformed(IF args.platform = "Linux" THEN args.cfg.Linux
                            ELSE args.cfg.MacOS)) =>
        (ret.err # Nil /\ ret.pathStatuses = <<>>)

(***************************************************************************)
(* C19: evaluation over file systems on which os.Stat fails.                *)
(***************************************************************************)
\* /a a directory, a regular file, missing or not searchable; /h a
\* directory, missing or not searchable; /m and /s directories.
FailingFileSystems ==
    {(PathA :> a) @@ (PathHome :> h) @@ (PathM :> "dir") @@ (PathS :> "dir") :
         a \in {"dir", "file", "absent", "denied"}, h \in {"dir", "absent", "denied"}}

CheckedPaths == {PathA, PathASlash, PathH, PathS}

MaxChecked == 2

\* A configuration whose all section lists the given paths.
ConfigListing(paths) ==
    [All |-> [Tags |-> <<>>, Paths |-> [i \in DOMAIN paths |-> StringItem(paths[i])],
              PowerShell |-> NoShellConfig],
     Linux |-> LinuxSection,
     MacOS |-> MacOSSection]

InitFailingFs ==
    /\ pc = "call"
    /\ args \in {[fn |-> f, paths |-> l, platform |-> "Linux", shell |-> "bash",
                  tagFilter |-> t, fs |-> d] :
                     f \in {"EvaluateConfigDetailed", "EvaluateConfigWithReasons",
                            "filterExisting"},
                     l \in SeqsBetween(CheckedPaths, 0, MaxChecked),
                     t \in {[Include |-> <<>>, Exclude |-> <<>>],
                            [Include |-> << <<TagDev>> >>, Exclude |-> <<>>]},
                     d \in FailingFileSystems}
    /\ ret = "none"

DetailedOnFailingFs ==
    /\ pc = "call"
    /\ args.fn = "EvaluateConfigDetailed"
    /\ ret' = EvaluateConfigDetailed(ConfigListing(args.paths), args.platform, args.shell,
                                     args.tagFilter, args.fs)
    /\ pc' = "done"
    /\ UNCHANGED args

WithReasonsOnFailingFs ==
    /\ pc = "call"
    /\ args.fn = "EvaluateConfigWithReasons"
    /\ ret' = EvaluateConfigWithReasons(ConfigListing(args.paths), args.platform,
                                        args.tagFilter, args.fs)
    /\ pc' = "done"
    /\ UNCHANGED args

FilterExistingOnFailingFs ==
    /\ pc = "call"
    /\ args.fn = "filterExisting"
    /\ ret' = filterExisting(args.paths, args.fs)
    /\ pc' = "done"
    /\ UNCHANGED args

NextFailingFs == DetailedOnFailingFs \/ WithReasonsOnFailingFs \/ FilterExistingOnFailingFs

SpecFailingFs == InitFailingFs /\ [][NextFailingFs]_vars

\* The check of a path fails: os.Stat returns an error.
CheckFails(fs, name) == Stat(fs, name).err # Nil

\* The file system with a directory where the check of name failed.
Repaired(fs, name) == [fs EXCEPT ![Clean(name)] = "dir"]

\* EvaluateConfigDetailed: no error; an entry whose check fails does not
\* exist; the other entries have the statuses they have once the check
\* succeeds.
DetailedToleratesFailure ==
    /\ ret.err = Nil
    /\ \A i \in DOMAIN ret.pathStatuses :
           CheckFails(args.fs, ret.pathStatuses[i].Path) =>
               /\ ~ret.pathStatuses[i].Exists
               /\ ~ret.pathStatuses[i].Included
               /\ LET other == EvaluateConfigDetailed(
                                   ConfigListing(args.paths), args.platform, args.shell,
                                   args.tagFilter,
                                   Repaired(args.fs, ret.pathStatuses[i].Path)).pathStatuses
                  IN  /\ Len(other) = Len(ret.pathStatuses)
                      /\ other[i].Exists
                      /\ \A j \in DOMAIN ret.pathStatuses :
                             ret.pathStatuses[j].Path # ret.pathStatuses[i].Path
                                 => other[j] = ret.pathStatuses[j]

\* EvaluateConfigWithReasons: no error; an entry whose check fails is
\* skipped as not found.
WithReasonsToleratesFailure ==
    /\ ret.err = Nil
    /\ \A i \in DOMAIN ret.IncludedPaths : ~CheckFails(args.fs, ret.IncludedPaths[i])
    /\ \A i \in DOMAIN ret.SkippedPaths :
           CheckFails(args.fs, ret.SkippedPaths[i].Path) =>
               ret.SkippedPaths[i].Reasons = <<SkipReason("not_found", "not found")>>

\* filterExisting: an entry whose check fails is dropped and the others
\* are kept as they are once the check succeeds.
FilterExistingToleratesFailure ==
    /\ \A i \in DOMAIN ret : ~CheckFails(args.fs, ret[i])
    /\ \A i \in DOMAIN args.paths :
           CheckFails(args.fs, ExpandEnv(args.paths[i])) =>
               ret = SelectSeq(filterExisting(args.paths,
                                              Repaired(args.fs, ExpandEnv(args.paths[i]))),
                               LAMBDA q : Clean(q) # Clean(ExpandEnv(args.paths[i])))

\* C19: a failing check of one entry's path (missing, not searchable, not
\* a directory) is no error of the evaluation; that entry is classified
\* not found and the status of every other entry is what it is when the
\* check succeeds.
C19_FilesystemFailureIsNotFatal ==
    pc = "done" =>
        CASE args.fn = "EvaluateConfigDetailed" -> DetailedToleratesFailure
          [] args.fn = "EvaluateConfigWithReasons" -> WithReasonsToleratesFailure
          [] OTHER -> FilterExistingToleratesFailure

\* The same for the statuses of EvaluateConfigDetailed and for
\* filterExisting alone.
C19_StatusesTolerateFailure ==
    (pc = "done" /\ args.fn # "EvaluateConfigWithReasons") =>
        IF args.fn = "EvaluateConfigDetailed" THEN DetailedToleratesFailure
        ELSE FilterExistingToleratesFailure

(***************************************************************************)
(* C20: getPathSkipReasons on the tags of an entry and an exclude filter.   *)
(***************************************************************************)
\* AND groups of an exclude expression: literals, patterns and pairs.
ReasonGroups ==
    { <<TagDev>>, <<TagMStar>>, <<TagWeb>>, <<TagStar>>,
      <<TagDev, TagMStar>>, <<TagWeb, TagMStar>> }

\* Exclude sides: absent, one group, two groups.
ReasonSides ==
    {<<>>} \cup {<<g>> : g \in ReasonGroups}
           \cup {<<g, h>> : g \in ReasonGroups, h \in ReasonGroups}

InitReason ==
    /\ pc = "call"
    /\ args \in {[fn |-> "getPathSkipReasons", pathTags |-> t, isExplicitlyTagged |-> e,
                  filter |-> [Include |-> i, Exclude |-> x]] :
                     t \in PathTagLists, e \in BOOLEAN,
                     i \in {<<>>, << <<TagDev>> >>}, x \in ReasonSides}
    /\ ret = "none"

CallGetPathSkipReasons ==
    /\ pc = "call"
    /\ ret' = getPathSkipReasons(args.pathTags, args.isExplicitlyTagged, args.filter)
    /\ pc' = "done"
    /\ UNCHANGED args

NextReason == CallGetPathSkipReasons

SpecReason == InitReason /\ [][NextReason]_vars

\* Every tag of the group is matched by some tag of the entry.
GroupMatched(pathTags, group) ==
    \A k \in DOMAIN group : \E j \in DOMAIN pathTags : FilterTagMatches(group[k], pathTags[j])

\* The first exclude group, left to right, whose tags are all matched.
FirstMatchedGroup(pathTags, conditions) ==
    conditions[CHOOSE g \in DOMAIN conditions :
                   /\ GroupMatched(pathTags, conditions[g])
                   /\ \A h \in 1..(g - 1) : ~GroupMatched(pathTags, conditions[h])]

TagAudio == <<"a", "u", "d", "i", "o">>

MaxReasonTags == 3

\* Include sides of one or two groups, with a tag no entry carries.
IncludeReasonGroups == { <<TagDev>>, <<TagAudio>>, <<TagMStar>>, <<TagDev, TagAudio>> }

IncludeReasonSides ==
    {<<g>> : g \in IncludeReasonGroups}
        \cup {<<g, h>> : g \in IncludeReasonGroups, h \in IncludeReasonGroups}

InitIncludeReason ==
    /\ pc = "call"
    /\ args \in {[fn |-> "getPathSkipReasons", pathTags |-> t, isExplicitlyTagged |-> e,
                  filter |-> [Include |-> i, Exclude |-> x]] :
                     t \in SeqsBetween(PathTagPool, 0, MaxReasonTags), e \in BOOLEAN,
                     i \in IncludeReasonSides, x \in {<<>>, << <<TagWeb>> >>}}
    /\ ret = "none"

SpecIncludeReason == InitIncludeReason /\ [][NextReason]_vars

\* At most the first two tags joined by ",", then " (+N)" for the N others.
TagsSummary(tags) ==
    Join(SubSeq(tags, 1, IF Len(tags) < 2 THEN Len(tags) ELSE 2), <<",">>)
        \o (IF Len(tags) > 2 THEN <<" ", "(", "+">> \o Itoa(Len(tags) - 2) \o <<")">>
            ELSE <<>>)

\* The OR groups joined by ",", the members of each joined by "+".
FilterSummary(conditions) ==
    Join([g \in DOMAIN conditions |-> Join(conditions[g], <<"+">>)], <<",">>)

AsPathuni == <<"p", "a", "t", "h", "u", "n", "i">>

AsSystem == <<"s", "y", "s", "t", "e", "m">>

\* getPowerShellPathEntries: the system paths as entries that carry the
\* directive's tags, or no tags field when the directive has none.
getPowerShellPathEntries(shell, platformConfig) ==
    LET as == IF platformConfig.PowerShell.IncludeSystemPathsAs = <<>> THEN AsSystem
              ELSE platformConfig.PowerShell.IncludeSystemPathsAs
        tags == IF ~platformConfig.PowerShell.Tags.nil
                THEN SliceOf(platformConfig.PowerShell.Tags.elems)
                ELSE NilSlice
    IN  IF shell # "powershell" \/ platformConfig.PowerShell.nil
               \/ ~platformConfig.PowerShell.IncludeSystemPaths
        THEN <<>>
        ELSE IF as # AsPathuni THEN <<>>
        ELSE [i \in DOMAIN getSystemPaths |-> PathEntry(getSystemPaths[i], tags)]

\* The powershell directives of a section: absent, or present with each
\* classification and with no tags field, an empty list or one tag.
ShellDirectives ==
    {[nil |-> TRUE, IncludeSystemPaths |-> FALSE, IncludeSystemPathsAs |-> <<>>,
      Tags |-> NilSlice]}
        \cup {[nil |-> FALSE, IncludeSystemPaths |-> b, IncludeSystemPathsAs |-> as, Tags |-> t] :
                  b \in BOOLEAN, as \in {<<>>, AsSystem, AsPathuni},
                  t \in {NilSlice, SliceOf(<<>>), SliceOf(<<TagWeb>>), SliceOf(<<TagMac>>)}}

DirectiveSections ==
    {[Tags |-> t, Paths |-> l, PowerShell |-> d] :
         t \in {<<>>, <<TagMac>>}, l \in {<<>>, <<MapItem(PathM)>>}, d \in ShellDirectives}

DirectiveConfigs ==
    {[All |-> [Tags |-> <<>>, Paths |-> l, PowerShell |-> NoShellConfig],
      Linux |-> LinuxSection,
      MacOS |-> m] : l \in {<<>>, <<StringItem(PathA)>>}, m \in DirectiveSections}

DirectiveFilters ==
    { [Include |-> <<>>, Exclude |-> <<>>],
      [Include |-> << <<TagMac>> >>, Exclude |-> <<>>],
      [Include |-> <<>>, Exclude |-> << <<TagMac>> >>],
      [Include |-> << <<TagWeb>> >>, Exclude |-> <<>>],
      [Include |-> <<>>, Exclude |-> << <<TagWeb>> >>] }

DirectiveFileSystems ==
    {(PathA :> "dir") @@ (PathM :> "dir") @@ (PathS :> k) : k \in {"dir", "absent"}}

InitDirective ==
    /\ pc = "call"
    /\ args \in {[fn |-> "EvaluateConfigDetailed", cfg |-> c, platform |-> x.platform,
                  shell |-> x.shell, tagFilter |-> f, fs |-> d] :
                     c \in DirectiveConfigs, x \in Contexts, f \in DirectiveFilters,
                     d \in DirectiveFileSystems}
             \cup {[fn |-> "getPowerShellPathEntries", shell |-> sh, platformConfig |-> m] :
                       sh \in {"bash", "powershell"}, m \in DirectiveSections}
    /\ ret = "none"

CallGetPowerShellPathEntries ==
    /\ pc = "call"
    /\ args.fn = "getPowerShellPathEntries"
    /\ ret' = getPowerShellPathEntries(args.shell, args.platformConfig)
    /\ pc' = "done"
    /\ UNCHANGED args

NextDirective == CallEvaluateConfigDetailed \/ CallGetPowerShellPathEntries

SpecDirective == InitDirective /\ [][NextDirective]_vars

\* The section of the platform in use and its powershell directive.
SectionInUse == IF args.platform = "Linux" THEN args.cfg.Linux ELSE args.cfg.MacOS

\* The statuses that follow those of the all section and of the platform
\* section: the statuses of the injected entries.
InjectedStatuses ==
    SubSeq(ret.pathStatuses, Len(args.cfg.All.Paths) + Len(SectionInUse.Paths) + 1,
           Len(ret.pathStatuses))

\* An evaluation for PowerShell under a directive that asks for the system
\* path files.
InjectionAsked ==
    /\ pc = "done"
    /\ args.fn = "EvaluateConfigDetailed"
    /\ ret.err = Nil
    /\ args.shell = "powershell"
    /\ ~SectionInUse.PowerShell.nil
    /\ SectionInUse.PowerShell.IncludeSystemPaths

\* The injected statuses are those of the system paths, filtered as
\* ordinary entries carrying the given tags.
InjectedCarry(present, own) ==
    /\ Len(InjectedStatuses) = Len(getSystemPaths)
    /\ \A i \in DOMAIN InjectedStatuses :
           LET st == InjectedStatuses[i] IN
           /\ st.Path = Clean(ExpandEnv(getSystemPaths[i]))
           /\ st.Tags = (IF present THEN own ELSE SectionInUse.Tags)
           /\ st.PassesFilter =
                  FilterVerdict([present |-> present, own |-> own,
                                 defaults |-> SectionInUse.Tags], args.tagFilter)
           /\ st.Included = (st.Exists /\ st.PassesFilter)

\* C22: entries injected as pathuni carry the directive's tag list when it
\* has a tags field, an empty list included, inherit the platform tags
\* only when it has none, and are filtered like ordinary entries; under
\* the system classification nothing is injected on the config side.
C22_InjectedEntriesCarryDirectiveTags ==
    InjectionAsked =>
        IF SectionInUse.PowerShell.IncludeSystemPathsAs = AsPathuni
        THEN InjectedCarry(~SectionInUse.PowerShell.Tags.nil,
                           SectionInUse.PowerShell.Tags.elems)
        ELSE InjectedStatuses = <<>>

\* The injected entries always inherit the platform tags, whatever tags
\* field the directive has.
C22_InjectedEntriesInheritPlatformTags ==
    InjectionAsked =>
        IF SectionInUse.PowerShell.IncludeSystemPathsAs = AsPathuni
        THEN InjectedCarry(FALSE, <<>>)
        ELSE InjectedStatuses = <<>>

\* The entries getPowerShellPathEntries returns carry the directive's
\* tags field as it is, absent, empty or not, and there are none unless
\* the directive classifies the system paths as pathuni.
C22_PathEntriesCarryDirectiveTags ==
    (pc = "done" /\ args.fn = "getPowerShellPathEntries") =>
        LET d == args.platformConfig.PowerShell IN
        IF args.shell = "powershell" /\ ~d.nil /\ d.IncludeSystemPaths
               /\ d.IncludeSystemPathsAs = AsPathuni
        THEN /\ Len(ret) = Len(getSystemPaths)
             /\ \A i \in DOMAIN ret :
                    /\ ret[i].Path = getSystemPaths[i]
                    /\ IsExplicitlyTagged(ret[i]) = ~d.Tags.nil
                    /\ GetEffectiveTags(ret[i], args.platformConfig.Tags)
                           = (IF d.Tags.nil THEN args.platformConfig.Tags ELSE d.Tags.elems)
        ELSE ret = <<>>

(***************************************************************************)
(* C23: shouldIncludePath and getPathSkipReasons on the same entry.         *)
(***************************************************************************)
\* Filter sides as parseTagFilter returns them: no group is empty.
VerdictSides ==
    {<<>>} \cup {<<g>> : g \in ReasonGroups} \cup {<<g, <<TagWeb>> >> : g \in ReasonGroups}

InitVerdict ==
    /\ pc = "call"
    /\ args \in {[pathTags |-> t, isExplicitlyTagged |-> e,
                  filter |-> [Include |-> i, Exclude |-> x]] :
                     t \in PathTagLists, e \in BOOLEAN,
                     i \in VerdictSides, x \in VerdictSides}
    /\ ret = "none"

\* processEntries asks shouldIncludePath about the entry.
VerdictShouldIncludePath ==
    /\ pc = "call"
    /\ ret' = [passes |-> shouldIncludePath(args.pathTags, args.isExplicitlyTagged,
                                            args.filter),
               reasons |-> "none"]
    /\ pc' = "reasons"
    /\ UNCHANGED args

\* EvaluateConfigWithReasons asks getPathSkipReasons about the same entry.
VerdictGetPathSkipReasons ==
    /\ pc = "reasons"
    /\ ret' = [ret EXCEPT !.reasons = getPathSkipReasons(args.pathTags,
                                                         args.isExplicitlyTagged,
                                                         args.filter)]
    /\ pc' = "done"
    /\ UNCHANGED args

NextVerdict == VerdictShouldIncludePath \/ VerdictGetPathSkipReasons

SpecVerdict == InitVerdict /\ [][NextVerdict]_vars

InitBoth ==
    /\ pc = "call"
    /\ args \in {[cfg |-> c, platform |-> x.platform, shell |-> x.shell, tagFilter |-> f,
                  fs |-> d] :
                     c \in Configs, x \in Contexts, f \in EvalFilters, d \in FileSystems}
    /\ ret = "none"

BothDetailed ==
    /\ pc = "call"
    /\ ret' = [statuses |-> EvaluateConfigDetailed(args.cfg, args.platform, args.shell,
                                                   args.tagFilter, args.fs),
               result |-> "none"]
    /\ pc' = "reasons"
    /\ UNCHANGED args

BothWithReasons ==
    /\ pc = "reasons"
    /\ ret' = [ret EXCEPT !.result = EvaluateConfigWithReasons(args.cfg, args.platform,
                                                               args.tagFilter, args.fs)]
    /\ pc' = "done"
    /\ UNCHANGED args

NextBoth == BothDetailed \/ BothWithReasons

SpecBoth == InitBoth /\ [][NextBoth]_vars

\* Both evaluations of one configuration have returned without an error.
BothEvaluated == pc = "done" /\ ret.statuses.err = Nil /\ ret.result.err = Nil

\* The positions of the statuses that satisfy a condition, in order.
StatusIndices(Test(_)) ==
    SelectSeq([i \in DOMAIN ret.statuses.pathStatuses |-> i],
              LAMBDA i : Test(ret.statuses.pathStatuses[i]))

\* The path EvaluateConfigWithReasons reports for the i-th entry covered.
ReportedPath(i) ==
    ExpandEnv(ConfiguredEntries(args.cfg, args.platform, args.shell)[i].path)

\* The two results cover the same entries: the included paths are the
\* entries with Included true, the skipped ones the others, skipped as not
\* found exactly when Exists is false and for a tags reason exactly when
\* Exists is true and PassesFilter false.
ResultsAgree ==
    LET inc == StatusIndices(LAMBDA st : st.Included)
        skip == StatusIndices(LAMBDA st : ~st.Included)
        st(i) == ret.statuses.pathStatuses[i]
    IN  /\ ret.result.TotalPaths = Len(ret.statuses.pathStatuses)
        /\ ret.result.IncludedPaths = [k \in DOMAIN inc |-> ReportedPath(inc[k])]
        /\ Len(ret.result.SkippedPaths) = Len(skip)
        /\ \A k \in DOMAIN skip :
               LET sk == ret.result.SkippedPaths[k] IN
               /\ sk.Path = ReportedPath(skip[k])
               /\ (sk.Reasons = <<SkipReason("not_found", "not found")>>)
                      <=> ~st(skip[k]).Exists
               /\ (Len(sk.Reasons) = 1 /\ sk.Reasons[1].Type = "tags")
                      <=> (st(skip[k]).Exists /\ ~st(skip[k]).PassesFilter)

\* C24: EvaluateConfigWithReasons and EvaluateConfigDetailed cover the same
\* entries; an entry is in IncludedPaths iff Included, skipped as not
\* found iff not Exists, skipped for a tags reason iff Exists and not
\* PassesFilter.
C24_EvaluatorsAgree == BothEvaluated => ResultsAgree

\* The same for an evaluation without shell-specific paths in which every
\* configured path is a directory or is missing.
C24_EvaluatorsAgree_DirOrMissing ==
    (/\ BothEvaluated
     /\ getShellSpecificPaths(args.shell,
                              IF args.platform = "Linux" THEN args.cfg.Linux
                              ELSE args.cfg.MacOS) = <<>>
     /\ \A i \in DOMAIN ret.statuses.pathStatuses :
            Stat(args.fs, ReportedPath(i)).err \in {Nil, "ENOENT"}
                /\ KindAt(args.fs, ret.statuses.pathStatuses[i].Path) # "file")
        => ResultsAgree

(***************************************************************************)
(* C25: every evaluated configuration path in the dry-run report.           *)
(***************************************************************************)
\* A dry run of scope pathuni or full has printed its report.
ConfigReported ==
    /\ pc = "done"
    /\ args.fn = "PrintDryRunReport"
    /\ args.scope \in {"pathuni", "full"}
    /\ ret.err = Nil

\* The distinct resolved paths of the configuration entries evaluated.
EvaluatedPaths ==
    {Clean(ExpandEnv(ConfiguredEntries(args.cfg, args.platform, args.shell)[i].path)) :
         i \in DOMAIN ConfiguredEntries(args.cfg, args.platform, args.shell)}

\* The included lines and the skipped lines of the report that show a path.
IncludedLinesOf(path) == {k \in DOMAIN ret.included : Clean(ret.included[k].path) = path}

SkippedLinesAt(path) == {k \in DOMAIN ret.skipped : Clean(ret.skipped[k].path) = path}

\* C25: in scope pathuni and full, under every prune value, every distinct
\* resolved path of the evaluated configuration entries is shown exactly
\* once, included or skipped with a reason, never both and never neither.
C25_ReportCompleteness ==
    ConfigReported =>
        \A path \in EvaluatedPaths :
            /\ Cardinality(IncludedLinesOf(path)) + Cardinality(SkippedLinesAt(path)) = 1
            /\ \A k \in SkippedLinesAt(path) :
                   ret.skipped[k].notFound \/ ret.skipped[k].details # <<>>

\* In scope full no path is shown twice among the included lines.
C25_FullScopeIncludesOnce ==
    (ConfigReported /\ args.scope = "full") =>
        \A path \in EvaluatedPaths : Cardinality(IncludedLinesOf(path)) <= 1

\* The statement of C25 for scope pathuni with the config side pruned, a shell without
\* injected paths, no configured path that is a regular file and no path
\* listed twice.
C25_ReportCompleteness_EachListedOnce ==
    (/\ ConfigReported /\ args.scope = "pathuni" /\ args.prune \in {"pathuni", "all"}
     /\ args.shell # "powershell"
     /\ args.fs[PathA] # "file"
     /\ Cardinality(EvaluatedPaths)
            = Len(ConfiguredEntries(args.cfg, args.platform, args.shell))) =>
        \A path \in EvaluatedPaths :
            Cardinality(IncludedLinesOf(path)) + Cardinality(SkippedLinesAt(path)) = 1

(***************************************************************************)
(* C26: the dry-run report beside the lists dump and init hand over, for    *)
(* one configuration, PATH value, filter, scope and prune value.            *)
(***************************************************************************)
FaithfulPathEnvs ==
    { <<"/", "s", ":", "/", "a", ":", "/", "s">>, <<"$", "H", ":", "/", "s">> }

InitFaithful ==
    /\ pc = "call"
    /\ args \in {[cfg |-> c, platform |-> x.platform, shell |-> x.shell, scope |-> sc,
                  prune |-> p, tagsInclude |-> f.include, tagsExclude |-> f.exclude,
                  pathEnv |-> e, fs |-> d] :
                     c \in ReportConfigs, x \in ReportContexts, sc \in Scopes, p \in Prunes,
                     f \in ReportFlagPairs, e \in FaithfulPathEnvs, d \in FileSystems}
    /\ ret = "none"

\* pathuni dry-run: the report of PrintDryRunReport.
FaithfulDryRun ==
    /\ pc = "call"
    /\ ret' = [report |-> PrintDryRunReport(args.cfg, args.platform, args.shell, args.scope,
                                            args.prune, args.tagsInclude, args.tagsExclude,
                                            args.pathEnv, args.fs),
               dump |-> "none", init |-> "none"]
    /\ pc' = "dump"
    /\ UNCHANGED args

\* pathuni dump: the list the scope switch of runDump hands to formatPaths.
FaithfulDump ==
    /\ pc = "dump"
    /\ ret' = [ret EXCEPT !.dump =
                  CASE args.scope = "system" ->
                           [out |-> IF args.prune = "system" \/ args.prune = "all"
                                    THEN filterExisting(resolveSystemPaths(args.pathEnv),
                                                        args.fs)
                                    ELSE resolveSystemPaths(args.pathEnv),
                            err |-> Nil]
                    [] args.scope = "pathuni" ->
                           resolvePathuniPaths(args.cfg, args.platform, args.shell,
                                               args.tagsInclude, args.tagsExclude,
                                               args.prune, args.fs)
                    [] OTHER ->
                           getAllPathsWithTagFiltering(args.cfg, args.platform, args.shell,
                                                       args.tagsInclude, args.tagsExclude,
                                                       args.prune, args.pathEnv, args.fs)]
    /\ pc' = "init"
    /\ UNCHANGED args

\* pathuni init: the list the scope switch of runInit hands to the renderer.
FaithfulInit ==
    /\ pc = "init"
    /\ LET merged(sys, pu) ==
               IF args.scope = "system" THEN [out |-> sys, err |-> Nil]
               ELSE IF pu.err # Nil \/ args.scope = "pathuni" THEN pu
               ELSE [out |-> mergeFull(pu.out, sys, TRUE), err |-> Nil]
       IN  ret' = [ret EXCEPT !.init =
                       merged(IF args.prune = "system" \/ args.prune = "all"
                              THEN filterExisting(resolveSystemPaths(args.pathEnv), args.fs)
                              ELSE resolveSystemPaths(args.pathEnv),
                              resolvePathuniPaths(args.cfg, args.platform, args.shell,
                                                  args.tagsInclude, args.tagsExclude,
                                                  args.prune, args.fs))]
    /\ pc' = "done"
    /\ UNCHANGED args

NextFaithful == FaithfulDryRun \/ FaithfulDump \/ FaithfulInit

SpecFaithful == InitFaithful /\ [][NextFaithful]_vars

\* The three commands have run on the same inputs without an error.
AllThreeRan ==
    /\ pc = "done"
    /\ ret.report.err = Nil
    /\ ret.dump.err = Nil
    /\ ret.init.err = Nil

\* The paths of the included lines of the report, in order.
ReportIncluded == [k \in DOMAIN ret.report.included |-> ret.report.included[k].path]

\* C26: the ordered included list of the dry-run report is the ordered
\* list init renders and dump prints for the same inputs.
C26_DryRunFaithful ==
    AllThreeRan => (ReportIncluded = ret.dump.out /\ ReportIncluded = ret.init.out)

\* The statement of C26 for scopes system and full.
C26_DryRunFaithful_SystemAndFull ==
    (AllThreeRan /\ args.scope # "pathuni") =>
        (ReportIncluded = ret.dump.out /\ ReportIncluded = ret.init.out)

\* In scope pathuni the included lines, each path kept at its first
\* occurrence, are the list of init and dump; init and dump agree always.
C26_DryRunFaithful_FirstOccurrences ==
    AllThreeRan =>
        /\ ret.dump.out = ret.init.out
        /\ dedupePreserveOrder(ReportIncluded) = ret.dump.out

(***************************************************************************)
(* C27: a non-empty --tags-include expression parsed and then applied to a  *)
(* tagged entry.                                                            *)
(***************************************************************************)
InitIncludeFlag ==
    /\ pc = "call"
    /\ args \in {[includeFlag |-> e, pathTags |-> t, isExplicitlyTagged |-> x] :
                     e \in (StringsUpTo(ExprChars, MaxExprLen) \cup SampleExprs) \ {<<>>},
                     t \in {<<TagMac>>, <<<<"D", "e", "v">>, TagWeb>>},
                     x \in BOOLEAN}
    /\ ret = "none"

\* resolvePathuniPaths parses the flags before it evaluates the configuration.
IncludeFlagParse ==
    /\ pc = "call"
    /\ ret' = [parsed |-> parseTagFlags(args.includeFlag, <<>>), passes |-> "none"]
    /\ pc' = IF parseTagFlags(args.includeFlag, <<>>).err # Nil THEN "failed" ELSE "filter"
    /\ UNCHANGED args

\* processEntries asks shouldIncludePath about the entry's effective tags.
IncludeFlagFilter ==
    /\ pc = "filter"
    /\ ret' = [ret EXCEPT !.passes = shouldIncludePath(args.pathTags, args.isExplicitlyTagged,
                                                       ret.parsed.filter)]
    /\ pc' = "done"
    /\ UNCHANGED args

NextIncludeFlag == IncludeFlagParse \/ IncludeFlagFilter

SpecIncludeFlag == InitIncludeFlag /\ [][NextIncludeFlag]_vars

\* No tag of the parsed include side is matched by a tag of the entry.
MatchesNoIncludeTag ==
    \A g \in DOMAIN ret.parsed.filter.Include :
        \A k \in DOMAIN ret.parsed.filter.Include[g] :
            \A i \in DOMAIN args.pathTags :
                ~FilterTagMatches(ret.parsed.filter.Include[g][k], args.pathTags[i])

\* C27: when parseTagFlags succeeds on a non-empty include expression the
\* Include list is not empty, so an entry with at least one effective tag
\* that matches no tag of the expression is excluded.
C27_IncludeFlagNeverEmpty ==
    pc = "done" =>
        /\ ret.parsed.filter.Include # <<>>
        /\ MatchesNoIncludeTag => ~ret.passes

\* The statement of C27 for expressions with an OR segment that is not blank.
C27_IncludeFlagNeverEmpty_NonBlankSegment ==
    (pc = "done" /\ NonBlankSegments(args.includeFlag) # <<>>) =>
        /\ ret.parsed.filter.Include # <<>>
        /\ MatchesNoIncludeTag => ~ret.passes

(***************************************************************************)
(* Version managers: the NVM path pattern and buildCleanPathV2.  The file   *)
(* systems have no symbolic links and the platform is not Windows, so       *)
(* normaliseKey is filepath.Clean.                                          *)
(***************************************************************************)
Versions == <<"v", "e", "r", "s", "i", "o", "n", "s">>

NodeWord == <<"n", "o", "d", "e">>

BinWord == <<"b", "i", "n">>

IsSeparator(c) == c = "/" \/ c = "\\"

\* GetPathPattern: the empty pattern when no NVM directory is found, else
\* the quoted directory followed by versions, node, one name and bin, each
\* after a separator.  The pattern is kept as the directory it is built on.
GetPathPattern(nvmHome) == nvmHome

\* regexp MatchString on that pattern: some part of s matches it; the empty
\* pattern matches every string.
MatchString(pattern, s) ==
    LET tail == <<"/">> \o Versions \o <<"/">> \o NodeWord \o <<"/">>
        sameButSeparators(part) ==
            \A k \in DOMAIN tail :
                IF tail[k] = "/" THEN IsSeparator(part[k]) ELSE part[k] = tail[k]
        matchesAt(i, n) ==
            LET a == i + Len(pattern)
                b == a + Len(tail)
                c == b + n
            IN  /\ c + Len(BinWord) <= Len(s)
                /\ SubSeq(s, i, a - 1) = pattern
                /\ sameButSeparators(SubSeq(s, a, b - 1))
                /\ \A k \in b..(c - 1) : ~IsSeparator(s[k])
                /\ IsSeparator(s[c])
                /\ SubSeq(s, c + 1, c + Len(BinWord)) = BinWord
    IN  \/ pattern = <<>>
        \/ \E i \in 1..Len(s) : \E n \in 1..Len(s) : matchesAt(i, n)

normaliseKey(p) == Clean(p)

\* selectNvmBin: NVM_BIN when it is set to an existing directory, else the
\* result of the manager's ResolvePath.
selectNvmBin(nvmBin, fs, resolved) ==
    IF TrimSpace(nvmBin) # <<>> /\ KindAt(fs, TrimSpace(nvmBin)) = "dir"
    THEN [path |-> TrimSpace(nvmBin), err |-> Nil]
    ELSE resolved

enforceSingleNvmBin(paths, selected, pattern) ==
    IF selected = <<>>
    THEN SelectSeq(paths, LAMBDA q : ~MatchString(pattern, q))
    ELSE SelectSeq(paths, LAMBDA q : ~(MatchString(pattern, q)
                                          /\ normaliseKey(q) # normaliseKey(selected)))

RECURSIVE uniqueByKey(_, _, _)
uniqueByKey(in, seen, out) ==
    IF in = <<>> THEN out
    ELSE IF normaliseKey(Head(in)) \in seen THEN uniqueByKey(Tail(in), seen, out)
    ELSE uniqueByKey(Tail(in), seen \cup {normaliseKey(Head(in))}, Append(out, Head(in)))

\* buildCleanPathV2 with no other version manager: the static paths, the
\* selected NVM bin, the PATH entries, then the single-bin rule and the
\* removal of repeated keys.
buildCleanPathV2(staticPaths, pattern, selection, current) ==
    LET selectedNvm == IF selection.err # Nil THEN <<>> ELSE selection.path
        kept(list) == SelectSeq(list, LAMBDA q : q # <<>> /\ ~MatchString(pattern, q))
        assembled == kept(staticPaths)
                         \o (IF selectedNvm # <<>> THEN <<selectedNvm>> ELSE <<>>)
                         \o kept(Split(current, ":"))
    IN  uniqueByKey(enforceSingleNvmBin(assembled, selectedNvm, pattern), {}, <<>>)

(***************************************************************************)
(* C28: buildCleanPathV2 over static paths, PATH values and NVM             *)
(* environments.                                                            *)
(***************************************************************************)
NvmHome == <<"/", "n">>

\* The bin directory of an installed version under the NVM directory.
NvmBinOf(version) ==
    NvmHome \o <<"/">> \o Versions \o <<"/">> \o NodeWord \o <<"/">> \o version
        \o <<"/">> \o BinWord

CleanStaticPaths ==
    { <<>>, PathA, PathASlash, PathS, NvmBinOf(<<"v", "1">>) }

MaxStatic == 2

CleanPathEnvs ==
    { <<>>,
      PathS \o <<":">> \o NvmBinOf(<<"v", "1">>) \o <<":">> \o PathA,
      NvmBinOf(<<"v", "2">>) \o <<":", ":">> \o PathM \o <<":">> \o PathS,
      NvmBinOf(<<"v", "1">>) \o <<"/", "x">> \o <<":">> \o PathM }

\* The NVM environments: the directory found or not, NVM_BIN unset or
\* naming the bin of v2, which exists or not, and ResolvePath failing or
\* returning the bin of v1 of the directory found.
NvmEnvironments ==
    {e \in [nvmHome : {<<>>, NvmHome},
            nvmBin : {<<>>, NvmBinOf(<<"v", "2">>)},
            fs : {(NvmBinOf(<<"v", "2">>) :> k) : k \in {"dir", "absent"}},
            resolved : {[path |-> <<>>, err |-> "no active nvm version"],
                        [path |-> NvmBinOf(<<"v", "1">>), err |-> Nil]}] :
         e.nvmHome = <<>> => e.resolved.err # Nil}

InitCleanPath ==
    /\ pc = "call"
    /\ args \in {[staticPaths |-> l, current |-> c, env |-> e] :
                     l \in SeqsBetween(CleanStaticPaths, 0, MaxStatic),
                     c \in CleanPathEnvs, e \in NvmEnvironments}
    /\ ret = "none"

CallBuildCleanPathV2 ==
    /\ pc = "call"
    /\ ret' = buildCleanPathV2(args.staticPaths, GetPathPattern(args.env.nvmHome),
                               selectNvmBin(args.env.nvmBin, args.env.fs, args.env.resolved),
                               args.current)
    /\ pc' = "done"
    /\ UNCHANGED args

NextCleanPath == CallBuildCleanPathV2

SpecCleanPath == InitCleanPath /\ [][NextCleanPath]_vars

\* The path names the bin directory of a node version: its last four
\* elements are versions, node, a name and bin.
IsNvmBinDir(path) ==
    LET e == Split(Clean(path), "/") IN
    /\ Len(e) >= 4
    /\ e[Len(e) - 3] = Versions
    /\ e[Len(e) - 2] = NodeWord
    /\ e[Len(e) - 1] # <<>>
    /\ e[Len(e)] = BinWord

\* The entries the result has to keep: the static paths and then the PATH
\* entries that are not empty and name no such directory.
EntriesToKeep ==
    SelectSeq(args.staticPaths \o Split(args.current, ":"),
              LAMBDA q : q # <<>> /\ ~IsNvmBinDir(q))

\* The first entry of each normalised path, in order.
FirstOfEachKey(list) ==
    SelectSeq([i \in DOMAIN list |-> [i |-> i, q |-> list[i]]],
              LAMBDA x : \A j \in 1..(x.i - 1) : Clean(list[j]) # Clean(x.q))

\* C28: buildCleanPathV2 removes only the bin directories of node versions:
\* every other non-empty static path and PATH entry is in the result, one
\* copy per normalised path, in the original relative order, whatever the
\* environment, also when no NVM directory is found.
C28_RemovesOnlyNvmBins ==
    pc = "done" =>
        SelectSeq(ret, LAMBDA q : ~IsNvmBinDir(q))
            = [k \in DOMAIN FirstOfEachKey(EntriesToKeep) |->
                   FirstOfEachKey(EntriesToKeep)[k].q]

\* The statement of C28 for the environments in which the NVM directory is
\* found and the entries that do not lie below a bin directory.
C28_RemovesOnlyNvmBins_DirectoryFound ==
    (/\ pc = "done"
     /\ args.env.nvmHome # <<>>
     /\ \A i \in DOMAIN EntriesToKeep :
            ~MatchString(GetPathPattern(args.env.nvmHome), EntriesToKeep[i])) =>
        SelectSeq(ret, LAMBDA q : ~IsNvmBinDir(q))
            = [k \in DOMAIN FirstOfEachKey(EntriesToKeep) |->
                   FirstOfEachKey(EntriesToKeep)[k].q]

(***************************************************************************)
(* NVM versions: parseSemver, listInstalled, the alias files and            *)
(* resolveToFullVersion.  An NVM directory is the set of directory names    *)
(* under versions/node and what os.ReadFile returns for each alias file.    *)
(***************************************************************************)
HasPrefix(s, prefix) == Len(s) >= Len(prefix) /\ SubSeq(s, 1, Len(prefix)) = prefix

\* strconv.Atoi: an optional sign and decimal digits.
RECURSIVE digitsValue(_)
digitsValue(d) ==
    IF d = <<>> THEN 0 ELSE digitsValue(SubSeq(d, 1, Len(d) - 1)) * 10 + (Ord(d[Len(d)]) - Ord("0"))

Atoi(s) ==
    LET d == IF s # <<>> /\ s[1] \in {"+", "-"} THEN Tail(s) ELSE s IN
    IF d = <<>> \/ \E i \in DOMAIN d : ~IsDigit(d[i]) THEN [n |-> 0, err |-> "invalid syntax"]
    ELSE [n |-> IF s[1] = "-" THEN 0 - digitsValue(d) ELSE digitsValue(d), err |-> Nil]

parseSemver(dirName) ==
    LET t == IF HasPrefix(dirName, <<"v">>) THEN Tail(dirName) ELSE dirName
        parsed(parts) ==
            IF Len(parts) < 3 THEN [ok |-> FALSE, maj |-> 0, min |-> 0, pat |-> 0, raw |-> <<>>]
            ELSE IF Atoi(parts[1]).err # Nil \/ Atoi(parts[2]).err # Nil
                        \/ Atoi(parts[3]).err # Nil
            THEN [ok |-> FALSE, maj |-> 0, min |-> 0, pat |-> 0, raw |-> <<>>]
            ELSE [ok |-> TRUE, maj |-> Atoi(parts[1]).n, min |-> Atoi(parts[2]).n,
                  pat |-> Atoi(parts[3]).n, raw |-> <<"v">> \o t]
    IN  parsed(Split(t, "."))

\* listInstalled as the set of versions parsed; its sort order is SemverLess.
listInstalled(installed) ==
    {[maj |-> parseSemver(d).maj, min |-> parseSemver(d).min, pat |-> parseSemver(d).pat,
      raw |-> parseSemver(d).raw] : d \in {x \in installed : parseSemver(x).ok}}

SemverLess(a, b) ==
    IF a.maj # b.maj THEN a.maj < b.maj
    ELSE IF a.min # b.min THEN a.min < b.min
    ELSE a.pat < b.pat

\* The raw name of the last element of the sorted list.
LastOf(vs) == (CHOOSE v \in vs : \A w \in vs : ~SemverLess(v, w)).raw

highestInstalled(installed) ==
    IF listInstalled(installed) = {} THEN [version |-> <<>>, err |-> "no installed versions"]
    ELSE [version |-> LastOf(listInstalled(installed)), err |-> Nil]

highestForMajor(installed, major) ==
    LET cand == {v \in listInstalled(installed) : v.maj = major} IN
    IF cand = {} THEN [version |-> <<>>, err |-> "no version for major"]
    ELSE [version |-> LastOf(cand), err |-> Nil]

resolveAliasFile(alias, name) ==
    IF name \in DOMAIN alias /\ alias[name].err = Nil /\ TrimSpace(alias[name].b) # <<>>
    THEN [tgt |-> TrimSpace(alias[name].b), ok |-> TRUE]
    ELSE [tgt |-> <<>>, ok |-> FALSE]

(***************************************************************************)
(* C29: resolveToFullVersion, one call per step; the versions of the calls  *)
(* that have not returned are kept as the stack.                            *)
(***************************************************************************)
AliasA == <<"a">>

AliasB == <<"b">>

AliasLts == <<"l", "t", "s", "/", "x">>

V100 == <<"v", "1", ".", "0", ".", "0">>

V205 == <<"v", "2", ".", "0", ".", "5">>

V210 == <<"v", "2", ".", "1", ".", "0">>

\* The content of an alias file: unreadable, blank, the name of an alias
\* or a version spec.
AliasContents ==
    {[b |-> <<>>, err |-> "no such file"]}
        \cup {[b |-> c, err |-> Nil] :
                 c \in {<<" ">>, AliasA, AliasB \o <<" ">>, V100, <<"2">>, AliasLts}}

AliasDirs == [{AliasA, AliasB, AliasLts} -> AliasContents]

InstalledSets == {{}, {V100}, {V100, V205, V210}, {V205, <<"j", "u", "n", "k">>}}

VersionSpecs ==
    {V100, <<"v", "9", ".", "9", ".", "9">>, NodeWord, AliasLts, <<"2">>, <<"7">>,
     AliasA, AliasB, <<>>}

InitVersion ==
    /\ pc = "resolve"
    /\ args \in {[version |-> v, alias |-> al, installed |-> ins] :
                     v \in VersionSpecs, al \in AliasDirs, ins \in InstalledSets}
    /\ ret = [stack |-> <<args.version>>, version |-> <<>>, err |-> Nil]

\* The call on top of the stack returns and so do its callers.
ResolveReturn ==
    /\ pc = "resolve"
    /\ LET version == ret.stack[Len(ret.stack)]
           returns(r) == ret' = [ret EXCEPT !.version = r.version, !.err = r.err]
       IN  /\ ~(HasPrefix(version, <<"v">>) /\ version \in args.installed)
                  => ~resolveAliasFile(args.alias, version).ok
           /\ IF HasPrefix(version, <<"v">>) /\ version \in args.installed
              THEN returns([version |-> version, err |-> Nil])
              ELSE IF version \in {NodeWord, <<"s", "t", "a", "b", "l", "e">>,
                                   <<"c", "u", "r", "r", "e", "n", "t">>}
              THEN returns(highestInstalled(args.installed))
              ELSE IF HasPrefix(version, <<"l", "t", "s", "/">>)
              THEN returns(highestInstalled(args.installed))
              ELSE IF Atoi(version).err = Nil
              THEN returns(highestForMajor(args.installed, Atoi(version).n))
              ELSE returns([version |-> <<>>, err |-> "cannot resolve version spec"])
    /\ pc' = "done"
    /\ UNCHANGED args

\* The call on top of the stack finds an alias file and calls itself on
\* the target.  A target that a call on the stack already has is resolved
\* by the same calls again: the recursion does not return.
ResolveAlias ==
    /\ pc = "resolve"
    /\ LET version == ret.stack[Len(ret.stack)]
           tgt == resolveAliasFile(args.alias, version).tgt
       IN  /\ ~(HasPrefix(version, <<"v">>) /\ version \in args.installed)
           /\ resolveAliasFile(args.alias, version).ok
           /\ ret' = [ret EXCEPT !.stack = Append(ret.stack, tgt)]
           /\ pc' = IF \E i \in DOMAIN ret.stack : ret.stack[i] = tgt THEN "diverges"
                    ELSE "resolve"
    /\ UNCHANGED args

NextVersion == ResolveReturn \/ ResolveAlias

SpecVersion == InitVersion /\ [][NextVersion]_vars

\* C29: resolveToFullVersion terminates, returning a version or an error,
\* for every version spec and every content of the alias directory, alias
\* files that name each other or themselves included: the recursion never
\* comes back to a spec it is resolving.
C29_ResolveTerminates == pc # "diverges"

\* The alias targets met from a spec, followed while they are new.
RECURSIVE AliasChain(_, _, _)
AliasChain(alias, installed, chain) ==
    LET version == chain[Len(chain)]
        next == resolveAliasFile(alias, version)
    IN  IF (HasPrefix(version, <<"v">>) /\ version \in installed) \/ ~next.ok THEN chain
        ELSE IF \E i \in DOMAIN chain : chain[i] = next.tgt THEN Append(chain, next.tgt)
        ELSE AliasChain(alias, installed, Append(chain, next.tgt))

\* The statement of C29 for alias directories in which the chain of
\* targets from the spec names no alias twice.
C29_ResolveTerminates_NoAliasCycle ==
    LET chain == AliasChain(args.alias, args.installed, <<args.version>>) IN
    (\A i, j \in DOMAIN chain : i # j => chain[i] # chain[j]) => pc # "diverges"

(***************************************************************************)
(* C30: readNvmrcUpwards, one iteration of its loop per step.  The file     *)
(* system gives what os.ReadFile returns at each absolute path; a relative  *)
(* name is read from the working directory.                                 *)
(***************************************************************************)
NvmrcName == <<".", "n", "v", "m", "r", "c">>

\* filepath.Join(dir, name).
JoinPath(dir, name) ==
    IF dir = <<>> THEN Clean(name)
    ELSE IF name = <<>> THEN Clean(dir)
    ELSE Clean(dir \o <<"/">> \o name)

\* filepath.Dir(path): the path up to its last separator, cleaned.
Dir(path) ==
    LET seps == {i \in DOMAIN path : path[i] = "/"} IN
    IF seps = {} THEN Clean(<<>>)
    ELSE Clean(SubSeq(path, 1, CHOOSE i \in seps : \A j \in seps : j <= i))

ReadFile(files, cwd, name) ==
    LET abs == IF name # <<>> /\ name[1] = "/" THEN Clean(name) ELSE JoinPath(cwd, name) IN
    IF abs \in DOMAIN files THEN files[abs] ELSE [b |-> <<>>, err |-> "no such file"]

DirRoot == <<"/">>

DirP == <<"/", "p">>

DirPQ == <<"/", "p", "/", "q">>

WorkingDirs == {DirRoot, DirP, DirPQ}

NvmrcContents ==
    {[b |-> <<>>, err |-> "no such file"], [b |-> <<>>, err |-> "permission denied"]}
        \cup {[b |-> c, err |-> Nil] : c \in {<<"v", "1">>, <<" ", "2", " ">>, <<" ">>}}

NvmrcFiles == [{JoinPath(d, NvmrcName) : d \in WorkingDirs} -> NvmrcContents]

\* findActiveVersion starts the search at "."; the working directory
\* itself stands for a caller that passes an absolute directory.
InitNvmrc ==
    /\ pc = "loop"
    /\ \E cwd \in WorkingDirs, f \in NvmrcFiles :
          \E st \in {<<".">>, cwd} : args = [start |-> st, cwd |-> cwd, files |-> f]
    /\ ret = [dir |-> args.start, out |-> <<>>]

NvmrcFound ==
    /\ pc = "loop"
    /\ ReadFile(args.files, args.cwd, JoinPath(ret.dir, NvmrcName)).err = Nil
    /\ ret' = [ret EXCEPT !.out =
                   TrimSpace(ReadFile(args.files, args.cwd, JoinPath(ret.dir, NvmrcName)).b)]
    /\ pc' = "done"
    /\ UNCHANGED args

NvmrcParent ==
    /\ pc = "loop"
    /\ ReadFile(args.files, args.cwd, JoinPath(ret.dir, NvmrcName)).err # Nil
    /\ Dir(ret.dir) # ret.dir
    /\ ret' = [ret EXCEPT !.dir = Dir(ret.dir)]
    /\ UNCHANGED <<pc, args>>

NvmrcNone ==
    /\ pc = "loop"
    /\ ReadFile(args.files, args.cwd, JoinPath(ret.dir, NvmrcName)).err # Nil
    /\ Dir(ret.dir) = ret.dir
    /\ ret' = [ret EXCEPT !.out = <<>>]
    /\ pc' = "done"
    /\ UNCHANGED args

NextNvmrc == NvmrcFound \/ NvmrcParent \/ NvmrcNone

SpecNvmrc == InitNvmrc /\ [][NextNvmrc]_vars

\* The working directory and its ancestors, nearest first.
AncestorsOf(cwd) ==
    LET elems == SelectSeq(Split(cwd, "/"), LAMBDA e : e # <<>>) IN
    [k \in 1..(Len(elems) + 1) |->
        <<"/">> \o Join(SubSeq(elems, 1, Len(elems) + 1 - k), <<"/">>)]

\* The positions in AncestorsOf(cwd) of the directories with a readable .nvmrc.
ReadableAt(files, cwd) ==
    {k \in DOMAIN AncestorsOf(cwd) :
        files[AncestorsOf(cwd)[k] \o (IF AncestorsOf(cwd)[k] = <<"/">> THEN <<>> ELSE <<"/">>)
                  \o NvmrcName].err = Nil}

NearestNvmrc(files, cwd) ==
    files[JoinPath(AncestorsOf(cwd)[CHOOSE k \in ReadableAt(files, cwd) :
                                        \A j \in ReadableAt(files, cwd) : k <= j],
                   NvmrcName)].b

\* C30: called by findActiveVersion (start "."), readNvmrcUpwards returns
\* the trimmed content of the nearest readable .nvmrc in the working
\* directory or one of its ancestors up to the root, and the empty string
\* only if none of those directories has a readable .nvmrc.
C30_NearestNvmrc ==
    (pc = "done" /\ args.start = <<".">>) =>
        /\ ReadableAt(args.files, args.cwd) # {}
              => ret.out = TrimSpace(NearestNvmrc(args.files, args.cwd))
        /\ ret.out = <<>> => ReadableAt(args.files, args.cwd) = {}

\* Started at an absolute directory, readNvmrcUpwards returns the trimmed
\* content of the nearest readable .nvmrc in that directory or one of its
\* ancestors, and the empty string if there is none.
C30_NearestNvmrc_AbsoluteStart ==
    (pc = "done" /\ args.start # <<".">>) =>
        ret.out = IF ReadableAt(args.files, args.cwd) = {} THEN <<>>
                  ELSE TrimSpace(NearestNvmrc(args.files, args.cwd))

\* Started at ".", readNvmrcUpwards reads the .nvmrc of the working
\* directory and no other.
C30_StartDotReadsWorkingDirOnly ==
    (pc = "done" /\ args.start = <<".">>) =>
        ret.out = IF 1 \in ReadableAt(args.files, args.cwd)
                  THEN TrimSpace(args.files[JoinPath(args.cwd, NvmrcName)].b)
                  ELSE <<>>

====
